---- MODULE Spec2Model ----
(***************************************************************************)
(* Model of the fund-analysis repository: the NAV and AQR loaders and      *)
(* their formatting helpers (data_loader.py, data_formating.py) and the    *)
(* portfolio orchestration (portfolio.py).                                 *)
(*                                                                         *)
(* Conventions.                                                            *)
(*  - A cell of a table is a record [k, s, a, b]: k is the kind of value,  *)
(*    s a literal string, a and b integer fields.                          *)
(*      nan            a missing value (NaN)                               *)
(*      none           Python None                                         *)
(*      num   a        a float, a in tenths (1005 is 100.5)                *)
(*      ts    a b      a Timestamp: day a (1 = 2024-01-01), b ns in day    *)
(*      lit   s        a string that is neither a date nor a number        *)
(*      iso   a b      the string "2024-aa-bb"                             *)
(*      slash a b      the string "aa/bb/2024"                             *)
(*      dot   a b      the string "aa.bb.2024"                             *)
(*      comma a b      the string "a,b" (decimal comma)                    *)
(*  - A DataFrame is [columns, index, data], data row-major.               *)
(*  - A call's outcome is [ok, val, exc]: a returned value or a raised     *)
(*    exception.                                                           *)
(*  - to_datetime is pandas 2.x: for strings the format is inferred from   *)
(*    the first element (month first when both readings are possible) and  *)
(*    then applied strictly to every element.                              *)
(***************************************************************************)
EXTENDS Integers, Sequences, FiniteSets, TLC

VARIABLES arg, op, nav_data, funds, ret, log, aqr_data, rf_data

vars == <<arg, op, nav_data, funds, ret, log, aqr_data, rf_data>>

----------------------------------------------------------------------------
(* Bounds of the model *)

MaxRows == 3

MaxJunk == 1

MaxCols == 2

MaxAqrRows == 2

MaxPoints == 3

MaxFunds == 2

MaxObs == 3

MaxPaths == 2
(* Files selected in one call of fill_portfolio on an empty portfolio;     *)
(* MaxFunds bounds the selections of a call on a portfolio that has funds  *)
MaxSelections == 3

----------------------------------------------------------------------------
(* Cells *)

Cell(k, s, a, b) == [k |-> k, s |-> s, a |-> a, b |-> b]

NaN == Cell("nan", "", 0, 0)

NoneCell == Cell("none", "", 0, 0)

Num(v) == Cell("num", "", v, 0)

Ts(day, ns) == Cell("ts", "", day, ns)

Lit(s) == Cell("lit", s, 0, 0)

Iso(m, d) == Cell("iso", "", m, d)

Slash(a, b) == Cell("slash", "", a, b)

Dot(a, b) == Cell("dot", "", a, b)

Comma(i, f) == Cell("comma", "", i, f)

Point(i, f) == Cell("point", "", i, f)

IsStr(c) == c.k \in {"lit", "iso", "slash", "dot", "comma", "point"}

IsNull(c) == c.k \in {"nan", "none"}

----------------------------------------------------------------------------
(* Sequence helpers *)

Range(s) == {s[i] : i \in DOMAIN s}

RECURSIVE SelectIdx(_, _)
SelectIdx(s, keep) ==
  IF s = <<>> THEN <<>>
  ELSE LET rest == SelectIdx(Tail(s), [i \in 1..(Len(s) - 1) |-> keep[i + 1]])
       IN  IF keep[1] THEN <<Head(s)>> \o rest ELSE rest

Perms(n) == {p \in [1..n -> 1..n] : \A i, j \in 1..n : i # j => p[i] # p[j]}

SeqsUpTo(S, n) == UNION {[1..k -> S] : k \in 0..n}

----------------------------------------------------------------------------
(* Outcomes of a call and exceptions *)

NoExc == [type |-> "", cls |-> "", method |-> "", args |-> <<>>]

NoVal == <<>>

Ok(v) == [ok |-> TRUE, val |-> v, exc |-> NoExc]

Exc(type) == [type |-> type, cls |-> "", method |-> "", args |-> <<>>]

Raise(e) == [ok |-> FALSE, val |-> NoVal, exc |-> e]

DataImportError(cls, method, args) ==
  [type |-> "DataImportError", cls |-> cls, method |-> method, args |-> args]

NotCalled == [ok |-> FALSE, val |-> NoVal, exc |-> Exc("not called")]

----------------------------------------------------------------------------
(* DataFrames *)

DataFrame(columns, index, data) ==
  [columns |-> columns, index |-> index, data |-> data]

RangeIndex(n) == [i \in 1..n |-> i - 1]

EmptyFrame == DataFrame(<<>>, <<>>, <<>>)

NRows(df) == Len(df.index)

ColPos(df, name) == CHOOSE j \in DOMAIN df.columns : df.columns[j] = name

HasCol(df, name) == \E j \in DOMAIN df.columns : df.columns[j] = name

Column(df, name) == [i \in 1..NRows(df) |-> df.data[i][ColPos(df, name)]]

SetColumn(df, name, col) ==
  [df EXCEPT !.data =
     [i \in 1..NRows(df) |-> [df.data[i] EXCEPT ![ColPos(df, name)] = col[i]]]]

(* A dropna that drops nothing *)
dropna_nothing(df) == df

dropna(df) ==
  LET keep == [i \in 1..NRows(df) |->
                 \A j \in DOMAIN df.data[i] : ~IsNull(df.data[i][j])]
  IN  DataFrame(df.columns, SelectIdx(df.index, keep), SelectIdx(df.data, keep))

reset_index(df) == [df EXCEPT !.index = RangeIndex(NRows(df))]

TsLE(x, y) == x.a < y.a \/ (x.a = y.a /\ x.b <= y.b)

TsLT(x, y) == x.a < y.a \/ (x.a = y.a /\ x.b < y.b)

(* sort_values(by, ascending=True) with the default kind 'quicksort', which *)
(* is not stable: rows with equal keys may come out in any order.  Null     *)
(* keys go last, in their original order.  The result is the set of the     *)
(* orders the sort may produce.                                            *)
SortOrders(keys) ==
  LET n == Len(keys)
  IN  {p \in Perms(n) :
         \A i, j \in 1..n : i < j =>
           \/ IsNull(keys[p[j]]) /\ ~IsNull(keys[p[i]])
           \/ IsNull(keys[p[j]]) /\ IsNull(keys[p[i]]) /\ p[i] < p[j]
           \/ ~IsNull(keys[p[i]]) /\ ~IsNull(keys[p[j]])
                /\ TsLE(keys[p[i]], keys[p[j]])}

(* A sort_values that leaves the rows as they are *)
sort_values_unsorted(df, by) == {df}

Reorder(df, p) ==
  DataFrame(df.columns,
            [i \in 1..NRows(df) |-> df.index[p[i]]],
            [i \in 1..NRows(df) |-> df.data[p[i]]])

sort_values(df, by) == {Reorder(df, p) : p \in SortOrders(Column(df, by))}

----------------------------------------------------------------------------
(* Files.  A file is a path and the lines of its first sheet, each line a  *)
(* sequence of cells.                                                      *)

Lower(ext) ==
  CASE ext = ".CSV" -> ".csv"
    [] ext = ".XLSX" -> ".xlsx"
    [] OTHER -> ext

ColName(c) == IF c.k = "lit" THEN c.s ELSE "Unnamed"

(* pd.read_csv / pd.read_excel(file_path, skiprows=n): the first line kept *)
(* is the header, the others are the data.                                 *)
ReadTable(file, skiprows) ==
  IF ~file.readable \/ skiprows >= Len(file.lines)
  THEN Raise(Exc("OSError"))
  ELSE LET kept == SubSeq(file.lines, skiprows + 1, Len(file.lines))
           data == Tail(kept)
       IN  Ok(DataFrame([j \in DOMAIN kept[1] |-> ColName(kept[1][j])],
                        RangeIndex(Len(data)), data))

----------------------------------------------------------------------------
(* DataFormating (data_formating.py) *)

HeaderRowAliases == {"Date", "DATE", "Date de valorisation"}

RowHasAlias(row) ==
  \E j \in DOMAIN row : row[j].k = "lit" /\ row[j].s \in HeaderRowAliases

(* A scan that returns on the last row that holds a date header *)
_header_row_last(df_imported) ==
  IF \E i \in 1..NRows(df_imported) : RowHasAlias(df_imported.data[i])
  THEN LET last == CHOOSE i \in 1..NRows(df_imported) :
                     /\ RowHasAlias(df_imported.data[i])
                     /\ \A h \in (i + 1)..NRows(df_imported) :
                          ~RowHasAlias(df_imported.data[h])
       IN  df_imported.index[last] + 1
  ELSE 0

(* The number of the line after the first row that holds a date header, 0  *)
(* when no row does.                                                       *)
_header_row(df_imported) ==
  IF \E i \in 1..NRows(df_imported) : RowHasAlias(df_imported.data[i])
  THEN LET first == CHOOSE i \in 1..NRows(df_imported) :
                      /\ RowHasAlias(df_imported.data[i])
                      /\ \A h \in 1..(i - 1) : ~RowHasAlias(df_imported.data[h])
       IN  df_imported.index[first] + 1
  ELSE 0

DaysInMonth == <<31, 29, 31, 30, 31, 30, 31, 31, 30, 31, 30, 31>>

ValidMD(m, d) == m \in 1..12 /\ d \in 1..DaysInMonth[m]

RECURSIVE DaysBefore(_)
DaysBefore(m) == IF m <= 1 THEN 0 ELSE DaysBefore(m - 1) + DaysInMonth[m - 1]

DayNum(m, d) == DaysBefore(m) + d

(* 1970-01-01 counted in days from 2024-01-01 = day 1 *)
EpochDay == 1 - 19723

(* strptime of one string under one format: the Timestamp, or NaN when the *)
(* string does not match the format.                                       *)
Strptime(c, fmt) ==
  CASE fmt = "%Y-%m-%d" /\ c.k = "iso" /\ ValidMD(c.a, c.b) -> Ts(DayNum(c.a, c.b), 0)
    [] fmt = "%d.%m.%Y" /\ c.k = "dot" /\ ValidMD(c.b, c.a) -> Ts(DayNum(c.b, c.a), 0)
    [] fmt = "%m.%d.%Y" /\ c.k = "dot" /\ ValidMD(c.a, c.b) -> Ts(DayNum(c.a, c.b), 0)
    [] fmt = "%d/%m/%Y" /\ c.k = "slash" /\ ValidMD(c.b, c.a) -> Ts(DayNum(c.b, c.a), 0)
    [] fmt = "%m/%d/%Y" /\ c.k = "slash" /\ ValidMD(c.a, c.b) -> Ts(DayNum(c.a, c.b), 0)
    [] OTHER -> NaN

(* to_datetime(column, format=fmt): every element must match, or ValueError *)
to_datetime_format(col, fmt) ==
  IF \E i \in DOMAIN col : Strptime(col[i], fmt) = NaN
  THEN Raise(Exc("ValueError"))
  ELSE Ok([i \in DOMAIN col |-> Strptime(col[i], fmt)])

(* The format pandas infers from the first string: month first when the    *)
(* string can be read that way, day first otherwise; "" when none fits.    *)
GuessFormat(c) ==
  CASE c.k = "iso" /\ ValidMD(c.a, c.b) -> "%Y-%m-%d"
    [] c.k = "slash" /\ ValidMD(c.a, c.b) -> "%m/%d/%Y"
    [] c.k = "slash" /\ ~ValidMD(c.a, c.b) /\ ValidMD(c.b, c.a) -> "%d/%m/%Y"
    [] c.k = "dot" /\ ValidMD(c.a, c.b) -> "%m.%d.%Y"
    [] c.k = "dot" /\ ~ValidMD(c.a, c.b) /\ ValidMD(c.b, c.a) -> "%d.%m.%Y"
    [] OTHER -> ""

(* to_datetime(column) without a format: Timestamps pass, numbers are      *)
(* nanoseconds since the epoch, strings are parsed under the format        *)
(* inferred from the first one.                                            *)
to_datetime(col) ==
  IF \A i \in DOMAIN col : col[i].k = "ts" THEN Ok(col)
  ELSE IF \A i \in DOMAIN col : col[i].k = "num"
  THEN Ok([i \in DOMAIN col |-> Ts(EpochDay, col[i].a \div 10)])
  ELSE IF GuessFormat(col[1]) = "" THEN Raise(Exc("ValueError"))
  ELSE to_datetime_format(col, GuessFormat(col[1]))

Unset == [unset |-> TRUE, col |-> <<>>]

Parsed(col) == [unset |-> FALSE, col |-> col]

FallbackFormats == <<"%Y-%m-%d", "%d.%m.%Y", "%d/%m/%Y", "%m/%d/%Y">>

RECURSIVE TryFormats(_, _)
TryFormats(col, k) ==
  IF k > Len(FallbackFormats) THEN Unset
  ELSE IF to_datetime_format(col, FallbackFormats[k]).ok
  THEN Parsed(to_datetime_format(col, FallbackFormats[k]).val)
  ELSE TryFormats(col, k + 1)

(* The converted 'Date' column, or Unset (the function ends without a      *)
(* return) when neither the generic parse nor any format parses.           *)
_date_converter(df_imported) ==
  LET col == Column(df_imported, "Date")
      generic == to_datetime(col)
  IN  IF generic.ok THEN Parsed(generic.val) ELSE TryFormats(col, 1)

IsObject(col) == \E i \in DOMAIN col : IsStr(col[i]) \/ col[i].k = "none"

(* A conversion that stops reading a number at its separator *)
FloatOfColumn_truncated(col) ==
  IF \E i \in DOMAIN col : ~IsStr(col[i]) THEN Raise(Exc("AttributeError"))
  ELSE IF \E i \in DOMAIN col : col[i].k \notin {"comma", "point"}
  THEN Raise(Exc("ValueError"))
  ELSE Ok([i \in DOMAIN col |-> Num(col[i].a * 10)])

(* [val.replace(',', '.') for val in column] and then astype(float): the   *)
(* texts "i,f" and "i.f" both read as the number i.f                       *)
FloatOfColumn(col) ==
  IF \E i \in DOMAIN col : ~IsStr(col[i]) THEN Raise(Exc("AttributeError"))
  ELSE IF \E i \in DOMAIN col : col[i].k \notin {"comma", "point"}
  THEN Raise(Exc("ValueError"))
  ELSE Ok([i \in DOMAIN col |-> Num(col[i].a * 10 + col[i].b)])

RECURSIVE FloatFrom(_, _)
FloatFrom(df, j) ==
  IF j > Len(df.columns) THEN Ok(df)
  ELSE LET col == [i \in 1..NRows(df) |-> df.data[i][j]]
       IN  IF df.columns[j] = "Date" \/ ~IsObject(col) THEN FloatFrom(df, j + 1)
           ELSE IF ~FloatOfColumn(col).ok THEN FloatOfColumn(col)
           ELSE FloatFrom(
                  [df EXCEPT !.data = [i \in 1..NRows(df) |->
                     [df.data[i] EXCEPT ![j] = FloatOfColumn(col).val[i]]]],
                  j + 1)

_float_converter(df_imported) == FloatFrom(df_imported, 1)

----------------------------------------------------------------------------
(* NavLoader (data_loader.py) *)

(* An except clause that lets the exception through *)
Catch_reraise(r, e) == r

(* try: ... except Exception: raise DataImportError(...) *)
Catch(r, e) == IF r.ok THEN r ELSE Raise(e)

SupportedNav == {".csv", ".xlsx", ".xls"}

Nav_load_file(file) ==
  LET ext == Lower(file.path.ext)
      data == ReadTable(file, 0)
      body == IF ext \notin SupportedNav THEN Raise(Exc("ValueError"))
              ELSE IF ~data.ok THEN data
              ELSE ReadTable(file, _header_row(data.val))
  IN  Catch(body, DataImportError("NavLoader", "_load_file", <<file.path>>))

DateNames == {"Date", " Date de valorisation", "DATE"}

(* "Cloture/Dernier" stands for the accented header of the source *)
ValueNames == {"NAV", "Price", "VL", "NAV ($)", "Cloture/Dernier", "Close", "Nav"}

(* The columns whose header is a date or a value alias, in file order,     *)
(* then renamed by position to 'Date', 'NAV'.                              *)
SelectedColumns(df) ==
  SelectIdx([j \in DOMAIN df.columns |-> j],
            [j \in DOMAIN df.columns |->
               df.columns[j] \in DateNames \/ df.columns[j] \in ValueNames])

(* result after result.columns = ['Date', 'NAV'] and dropna(); the rename *)
(* raises ValueError unless exactly two columns were selected.             *)
SelectedFrame(nav) ==
  LET sel == SelectedColumns(nav)
  IN  IF Len(sel) # 2 THEN Raise(Exc("ValueError"))
      ELSE Ok(dropna(DataFrame(<<"Date", "NAV">>, nav.index,
                [i \in 1..NRows(nav) |-> [c \in 1..2 |-> nav.data[i][sel[c]]]])))

(* result['Date'] = self._date_converter(result): an unset result makes    *)
(* every date None.                                                        *)
AssignDates(df, dates) ==
  SetColumn(df, "Date",
            IF dates.unset THEN [i \in 1..NRows(df) |-> NoneCell] ELSE dates.col)

(* The outcomes of _clean_dataframe on the loaded table (one per order the *)
(* sort may produce).                                                      *)
_clean_dataframe(nav) ==
  LET selected == SelectedFrame(nav)
      floated == _float_converter(
                   AssignDates(selected.val, _date_converter(selected.val)))
  IN  IF ~selected.ok THEN {selected}
      ELSE IF ~floated.ok THEN {floated}
      ELSE {Ok(reset_index(s)) : s \in sort_values(floated.val, "Date")}

(* The outcomes of load_nav_data: the value returned or the exception      *)
(* raised, and the loader's nav_data attribute afterwards.                 *)
load_nav_data(file, old_nav_data) ==
  LET loaded == Nav_load_file(file)
      wrap == DataImportError("NavLoader", "_load_nav_data", <<file.path>>)
  IN  IF ~loaded.ok
      THEN {[ret |-> Catch(loaded, wrap), nav_data |-> old_nav_data]}
      ELSE {[ret |-> Catch(c, wrap),
             nav_data |-> IF c.ok THEN c.val ELSE loaded.val] :
              c \in _clean_dataframe(loaded.val)}

----------------------------------------------------------------------------
(* AqrLoader (data_loader.py).  A workbook is a path and its sheets, each  *)
(* sheet present or not, with its lines.                                   *)

SupportedAqr == {".xlsx", ".xls"}

factors_list == <<"MKT", "SMB", "HML FF", "HML Devil", "UMD">>

SheetOf(book, name) ==
  [readable |-> book.readable /\ book.sheets[name].present,
   lines |-> book.sheets[name].lines]

Aqr_load_file(book, factor) ==
  LET ext == Lower(book.path.ext)
      data == ReadTable(SheetOf(book, factor), 0)
      body == IF ext \notin SupportedAqr THEN Raise(Exc("ValueError"))
              ELSE IF ~data.ok THEN data
              ELSE ReadTable(SheetOf(book, factor), _header_row(data.val))
  IN  Catch(body, DataImportError("AqrLoader", "_load_file", <<book.path>>))

(* df[name] = series: on a frame without columns the series gives the      *)
(* index; otherwise the values are aligned on the index labels, NaN where  *)
(* the series has no such label.                                           *)
AssignSeries(df, name, series) ==
  IF df.columns = <<>>
  THEN DataFrame(<<name>>, series.index,
                 [i \in 1..Len(series.index) |-> <<series.data[i]>>])
  ELSE DataFrame(Append(df.columns, name), df.index,
         [i \in 1..NRows(df) |->
            Append(df.data[i],
              IF \E h \in 1..Len(series.index) : series.index[h] = df.index[i]
              THEN series.data[CHOOSE h \in 1..Len(series.index) :
                                 series.index[h] = df.index[i]]
              ELSE NaN)])

SeriesOf(df, name) == [index |-> df.index, data |-> Column(df, name)]

(* The table after the sheets of factors k.. have been read into df, or    *)
(* the exception that one of them raises                                   *)
RECURSIVE ImportFactors(_, _, _, _)
ImportFactors(book, inv_universe, df, k) ==
  IF k > Len(factors_list) THEN Ok(df)
  ELSE LET imp == Aqr_load_file(book, factors_list[k])
           withDate == IF HasCol(df, "Date") THEN df
                       ELSE AssignSeries(df, "Date", SeriesOf(imp.val, "DATE"))
       IN  IF ~imp.ok THEN imp
           ELSE IF ~HasCol(df, "Date") /\ ~HasCol(imp.val, "DATE")
           THEN Raise(Exc("KeyError"))
           ELSE IF ~HasCol(imp.val, inv_universe) THEN Raise(Exc("KeyError"))
           ELSE ImportFactors(book, inv_universe,
                  AssignSeries(withDate, factors_list[k],
                               SeriesOf(imp.val, inv_universe)),
                  k + 1)

(* dropna, the two converters and the sort, as both AQR loads apply them *)
AqrClean(df) ==
  LET dropped == dropna(df)
      floated == _float_converter(AssignDates(dropped, _date_converter(dropped)))
  IN  IF ~floated.ok THEN {floated}
      ELSE {Ok(s) : s \in sort_values(floated.val, "Date")}

(* The outcomes of load_aqr_factor(file_path, inv_universe) *)
load_aqr_factor(book, inv_universe) ==
  LET imported == ImportFactors(book, inv_universe, EmptyFrame, 1)
      wrap == DataImportError("AqrLoader", "load_aqr_factor",
                              <<book.path, inv_universe>>)
  IN  IF ~imported.ok THEN {Catch(imported, wrap)}
      ELSE {Catch(c, wrap) : c \in AqrClean(imported.val)}

(* The outcomes of load_rf(file_path) *)
load_rf(book) ==
  LET imp == Aqr_load_file(book, "RF")
      wrap == DataImportError("AqrLoader", "load_rf", <<book.path>>)
  IN  IF ~imp.ok THEN {Catch(imp, wrap)}
      ELSE IF Len(imp.val.columns) # 2 THEN {Catch(Raise(Exc("ValueError")), wrap)}
      ELSE {Catch(c, wrap) :
              c \in AqrClean([dropna(imp.val) EXCEPT !.columns = <<"Date", "RF">>])}

(* Dictionaries: functions of their keys.  Dict is {} and SetItem is       *)
(* d[key] = value.                                                         *)
Dict == <<>>

SetItem(d, key, value) ==
  [k \in DOMAIN d \cup {key} |-> IF k = key THEN value ELSE d[k]]

(* The names of the periodicities in the order opposite to the source's *)
periodicity_name_reversed == <<"Monthly", "Daily">>

periodicity_name == <<"Daily", "Monthly">>

(* One turn of the loop of fill_factors on paths[i], for each outcome of   *)
(* the two loads; s is the loader's two dictionaries and what was raised   *)
FactorTurn(s, i, path, universe) ==
  IF ~s.ret.ok THEN {s}
  ELSE UNION {IF ~aqr_factors.ok THEN {[s EXCEPT !.ret = aqr_factors]}
              ELSE {IF ~rf.ok THEN [s EXCEPT !.ret = rf]
                    ELSE IF i > Len(periodicity_name)
                    THEN [s EXCEPT !.ret = Raise(Exc("IndexError"))]
                    ELSE [aqr_data |-> SetItem(s.aqr_data, periodicity_name[i],
                                               aqr_factors.val),
                          rf_data |-> SetItem(s.rf_data, periodicity_name[i], rf.val),
                          ret |-> s.ret] :
                      rf \in load_rf(path)} :
                aqr_factors \in load_aqr_factor(path, universe)}

RECURSIVE FactorLoop(_, _, _, _, _)
FactorLoop(aqr, rf, paths, universe, i) ==
  IF i = 0 THEN {[aqr_data |-> aqr, rf_data |-> rf, ret |-> Ok(NoVal)]}
  ELSE UNION {FactorTurn(s, i, paths[i], universe) :
                s \in FactorLoop(aqr, rf, paths, universe, i - 1)}

(* fill_factors(paths, universe): the two dictionaries afterwards and the  *)
(* pair returned or the exception raised                                   *)
fill_factors(aqr, rf, paths, universe) ==
  {[aqr_data |-> s.aqr_data, rf_data |-> s.rf_data,
    ret |-> IF s.ret.ok THEN Ok(<<s.aqr_data, s.rf_data>>) ELSE s.ret] :
     s \in FactorLoop(aqr, rf, paths, universe, Len(paths))}

----------------------------------------------------------------------------
(* Floating-point results, kept exact.  A value is not-a-number, a signed  *)
(* infinity, a rational n/d in lowest terms, or a term over rationals that *)
(* is not rational itself: a square root, a power less one, a quotient.    *)

RECURSIVE GCD(_, _)
GCD(a, b) == IF b = 0 THEN a ELSE GCD(b, a % b)

Abs(x) == IF x < 0 THEN -x ELSE x

Q(n, d) ==
  LET g == GCD(Abs(n), Abs(d))
      sgn == IF d < 0 THEN -1 ELSE 1
  IN  [k |-> "q", n |-> (sgn * n) \div g, d |-> Abs(d) \div g]

QInt(n) == Q(n, 1)

QAdd(x, y) == Q(x.n * y.d + y.n * x.d, x.d * y.d)

QSub(x, y) == Q(x.n * y.d - y.n * x.d, x.d * y.d)

QMul(x, y) == Q(x.n * y.n, x.d * y.d)

QDiv(x, y) == Q(x.n * y.d, x.d * y.n)

QLt(x, y) == x.n * y.d < y.n * x.d

QLe(x, y) == x.n * y.d <= y.n * x.d

NaNv == [k |-> "nan"]

Inf(sgn) == [k |-> "inf", s |-> sgn]

(* np.sqrt(q) for q >= 0 *)
Sqrt(q) == IF q.n = 0 THEN QInt(0) ELSE [k |-> "sqrt", of |-> q]

RECURSIVE QPow(_, _)
QPow(base, e) == IF e = 0 THEN QInt(1) ELSE QMul(base, QPow(base, e - 1))

(* base ** (num / den) - 1: exact when the base is 0 or 1, not-a-number    *)
(* for a negative base under an exponent that is not a whole number        *)
PowLessOne(base, num, den) ==
  IF base = QInt(1) THEN QInt(0)
  ELSE IF base.n = 0 THEN QInt(-1)
  ELSE IF base.n < 0 /\ num % den # 0 THEN NaNv
  ELSE [k |-> "pow1", base |-> base, e |-> Q(num, den)]

(* -1, 0 or 1: the sign of a value that is a number *)
RECURSIVE Sign(_)
Sign(v) ==
  CASE v.k = "q" -> IF v.n > 0 THEN 1 ELSE IF v.n < 0 THEN -1 ELSE 0
    [] v.k = "inf" -> v.s
    [] v.k = "sqrt" -> 1
    [] v.k = "pow1" ->
         IF v.base.n > 0 THEN (IF QLt(QInt(1), v.base) THEN 1 ELSE -1)
         ELSE IF (v.e.n \div v.e.d) % 2 = 1 THEN -1
         ELSE IF QLt(QInt(1), Q(-v.base.n, v.base.d)) THEN 1
         ELSE IF v.base = QInt(-1) THEN 0
         ELSE -1
    [] v.k = "quot" -> Sign(v.top) * Sign(v.bot)

(* v == 0 and v > 0 of floats: both False on not-a-number *)
IsZero(v) == v.k = "q" /\ v.n = 0

IsPositive(v) == v.k # "nan" /\ Sign(v) = 1

(* top / bot for a bot that is not zero *)
Quot(top, bot) ==
  IF top.k = "nan" \/ bot.k = "nan" THEN NaNv
  ELSE IF top.k = "q" /\ bot.k = "q" THEN QDiv(top, bot)
  ELSE IF IsZero(top) THEN QInt(0)
  ELSE [k |-> "quot", top |-> top, bot |-> bot]

(* Series: [index, data], the labels and the values *)
Series(index, data) == [index |-> index, data |-> data]

(* The float of a cell: numbers are written in tenths *)
SeriesOfCells(df, name) ==
  Series(df.index, [i \in 1..NRows(df) |-> Q(Column(df, name)[i].a, 10)])

SLen(s) == Len(s.index)

(* s.pct_change().dropna() of a series of positive values *)
pct_change(s) ==
  Series(SubSeq(s.index, 2, SLen(s)),
         [i \in 1..(SLen(s) - 1) |-> QSub(QDiv(s.data[i + 1], s.data[i]), QInt(1))])

(* The entries of s whose label is also in t: one side of                  *)
(* s.align(t, join = 'inner') for increasing labels                        *)
AlignedTo(s, t) ==
  LET keep == [i \in 1..SLen(s) |-> s.index[i] \in Range(t.index)]
  IN  Series(SelectIdx(s.index, keep), SelectIdx(s.data, keep))

(* s - t after alignment on the common labels *)
Minus(s, t) ==
  LET a == AlignedTo(s, t)
      b == AlignedTo(t, s)
  IN  Series(a.index, [i \in 1..SLen(a) |-> QSub(a.data[i], b.data[i])])

(* s[mask] *)
Where(s, mask) == Series(SelectIdx(s.index, mask), SelectIdx(s.data, mask))

RECURSIVE Sum(_)
Sum(data) == IF data = <<>> THEN QInt(0) ELSE QAdd(Head(data), Sum(Tail(data)))

RECURSIVE Prod(_)
Prod(data) == IF data = <<>> THEN QInt(1) ELSE QMul(Head(data), Prod(Tail(data)))

Mean(data) == QDiv(Sum(data), QInt(Len(data)))

(* The sum of the products of the deviations of x and y from their means *)
CoMoment(x, y) ==
  Sum([i \in DOMAIN x |-> QMul(QSub(x[i], Mean(x)), QSub(y[i], Mean(y)))])

(* np.var(x): the divisor is the number of values *)
Var0(x) == QDiv(CoMoment(x, x), QInt(Len(x)))

(* np.cov(x, y)[0, 1]: the divisor is the number of values less one; with  *)
(* one value the division by zero gives not-a-number                       *)
Cov1(x, y) ==
  IF Len(x) < 2 THEN NaNv ELSE QDiv(CoMoment(x, y), QInt(Len(x) - 1))

(* Series.std() * np.sqrt(annualization): the divisor of the variance is   *)
(* the number of values less one, not-a-number below two values            *)
AnnualizedStd(x, annualization) ==
  IF Len(x) < 2 THEN NaNv
  ELSE Sqrt(QMul(QDiv(CoMoment(x, x), QInt(Len(x) - 1)), QInt(annualization)))

----------------------------------------------------------------------------
(* DescriptiveStatistics2 (descriptive_stats.py).  The series hold no      *)
(* missing value and the NAVs are positive, as the loaders and the merges  *)
(* hand them over.                                                         *)

DescriptiveStatistics2(nav_series, rf, periodicity) ==
  [nav_series |-> nav_series, rf |-> rf, annualization |-> periodicity]

calculate_daily_returns(self) ==
  IF SLen(self.nav_series) = 0 THEN self.nav_series ELSE pct_change(self.nav_series)

calculate_daily_excess_returns(self) == Minus(calculate_daily_returns(self), self.rf)

(* A performance annualised over the number of returns *)
calculate_performance_returns(self) ==
  LET nav == SelectSeq(self.nav_series.data, LAMBDA v : v.k # "nan")
      total_return == QSub(QDiv(nav[Len(nav)], nav[1]), QInt(1))
  IN  IF nav = <<>> THEN Raise(Exc("IndexError"))
      ELSE Ok([total_return |-> total_return,
               annualized_return |->
                 PowLessOne(QAdd(QInt(1), total_return),
                            self.annualization, Len(nav) - 1)])

(* nav = self.nav_series.dropna(); nav.iloc[-1] raises IndexError on an    *)
(* empty series; n_obs = len(nav)                                          *)
calculate_performance(self) ==
  LET nav == SelectSeq(self.nav_series.data, LAMBDA v : v.k # "nan")
      total_return == QSub(QDiv(nav[Len(nav)], nav[1]), QInt(1))
  IN  IF nav = <<>> THEN Raise(Exc("IndexError"))
      ELSE Ok([total_return |-> total_return,
               annualized_return |->
                 PowLessOne(QAdd(QInt(1), total_return), self.annualization, Len(nav))])

calculate_volatility(self) ==
  AnnualizedStd(calculate_daily_returns(self).data, self.annualization)

calculate_excess_returns(self) ==
  LET excess_returns == calculate_daily_excess_returns(self).data
      total_excess_return ==
        QSub(Prod([i \in DOMAIN excess_returns |-> QAdd(QInt(1), excess_returns[i])]),
             QInt(1))
  IN  IF excess_returns = <<>>
      THEN [total_excess_returns |-> NaNv, annualized_excess_returns |-> NaNv]
      ELSE [total_excess_returns |-> total_excess_return,
            annualized_excess_returns |->
              PowLessOne(QAdd(QInt(1), total_excess_return),
                         self.annualization, Len(excess_returns))]

(* A saturation that forgets the sign of the excess return *)
Saturated_positive(ann_excess) == Inf(1)

(* np.inf if ann_excess > 0 else -np.inf *)
Saturated(ann_excess) == IF IsPositive(ann_excess) THEN Inf(1) ELSE Inf(-1)

calculate_sharpe_ratio(self) ==
  LET ann_excess == calculate_excess_returns(self).annualized_excess_returns
      ann_vol == calculate_volatility(self)
  IN  IF IsZero(ann_vol) THEN Saturated(ann_excess) ELSE Quot(ann_excess, ann_vol)

calculate_downside_volatility(self) ==
  LET diff == calculate_daily_excess_returns(self)
      negative_diff == Where(diff, [i \in 1..SLen(diff) |-> diff.data[i].n < 0])
  IN  IF SLen(negative_diff) = 0 THEN QInt(0)
      ELSE AnnualizedStd(negative_diff.data, self.annualization)

calculate_sortino_ratio(self) ==
  LET ann_excess == calculate_excess_returns(self).annualized_excess_returns
      downside_vol == calculate_downside_volatility(self)
  IN  IF IsZero(downside_vol) THEN Saturated(ann_excess)
      ELSE Quot(ann_excess, downside_vol)

QMax(x, y) == IF QLt(x, y) THEN y ELSE x

QMin(x, y) == IF QLt(y, x) THEN y ELSE x

(* (1 + daily_ret).cumprod() *)
RECURSIVE CumProd(_, _)
CumProd(data, i) ==
  IF i = 0 THEN <<>>
  ELSE LET before == CumProd(data, i - 1)
       IN  Append(before, QMul(IF i = 1 THEN QInt(1) ELSE before[i - 1],
                               QAdd(QInt(1), data[i])))

(* A peak that is the maximum of the whole series on every row *)
CumMax_whole(data, i) ==
  [t \in 1..i |-> CHOOSE m \in Range(data) : \A d \in Range(data) : QLe(d, m)]

(* cum_returns.cummax() *)
RECURSIVE CumMax(_, _)
CumMax(data, i) ==
  IF i = 0 THEN <<>>
  ELSE LET before == CumMax(data, i - 1)
       IN  Append(before, IF i = 1 THEN data[1] ELSE QMax(before[i - 1], data[i]))

RECURSIVE MinOf(_)
MinOf(data) ==
  IF Len(data) = 1 THEN data[1] ELSE QMin(Head(data), MinOf(Tail(data)))

(* drawdown.min(): not-a-number on an empty series *)
calculate_maximum_drawdown(self) ==
  LET daily_ret == calculate_daily_returns(self).data
      cum_returns == CumProd(daily_ret, Len(daily_ret))
      rolling_peak == CumMax(cum_returns, Len(cum_returns))
      drawdown == [i \in DOMAIN cum_returns |->
                     QDiv(QSub(cum_returns[i], rolling_peak[i]), rolling_peak[i])]
  IN  IF daily_ret = <<>> THEN NaNv ELSE MinOf(drawdown)

calculate_tracking_error(self, benchmark_returns) ==
  LET diff == Minus(calculate_daily_returns(self), benchmark_returns)
  IN  IF SLen(diff) = 0 THEN NaNv
      ELSE AnnualizedStd(diff.data, self.annualization)

(* cov / var_bench: the covariance of np.cov, the variance of np.var *)
Beta(fund, bench) == Quot(Cov1(fund, bench), Var0(bench))

calculate_alpha_beta(self, benchmark_returns) ==
  LET bench_all == Minus(benchmark_returns, self.rf)
      fund_excess == AlignedTo(calculate_daily_excess_returns(self), bench_all).data
      bench_excess == AlignedTo(bench_all, calculate_daily_excess_returns(self)).data
      beta == Beta(fund_excess, bench_excess)
  IN  IF fund_excess = <<>> THEN [alpha |-> NaNv, beta |-> NaNv]
      ELSE IF Var0(bench_excess).n = 0 THEN [alpha |-> NaNv, beta |-> NaNv]
      ELSE [alpha |-> QMul(QSub(Mean(fund_excess), QMul(beta, Mean(bench_excess))),
                           QInt(self.annualization)),
            beta |-> beta]

(* A beta of a partition that is 0 where the source gives not-a-number *)
PartitionBeta_zero(fund, bench) ==
  IF Len(bench) > 1 /\ Var0(bench).n # 0 THEN Beta(fund, bench) ELSE QInt(0)

(* The beta over the points of a partition, not-a-number when it has at    *)
(* most one point or a benchmark without variance                          *)
PartitionBeta(fund, bench) ==
  IF Len(bench) > 1 /\ Var0(bench).n # 0 THEN Beta(fund, bench) ELSE NaNv

calculate_beta_up_and_down(self, benchmark_returns) ==
  LET bench_all == Minus(benchmark_returns, self.rf)
      fund_excess == AlignedTo(calculate_daily_excess_returns(self), bench_all)
      bench_excess == AlignedTo(bench_all, calculate_daily_excess_returns(self))
      mask_up == [i \in 1..SLen(bench_excess) |->
                    QLe(Mean(bench_excess.data), bench_excess.data[i])]
      mask_down == [i \in 1..SLen(bench_excess) |-> ~mask_up[i]]
  IN  IF SLen(bench_excess) = 0 THEN [beta_up |-> NaNv, beta_down |-> NaNv]
      ELSE [beta_up |-> PartitionBeta(Where(fund_excess, mask_up).data,
                                      Where(bench_excess, mask_up).data),
            beta_down |-> PartitionBeta(Where(fund_excess, mask_down).data,
                                        Where(bench_excess, mask_down).data)]

(* A stats_list in which beta and alpha have changed places *)
stats_list_swapped(self, benchmark_returns) ==
  <<calculate_performance(self).val.annualized_return,
    calculate_performance(self).val.total_return,
    calculate_volatility(self),
    calculate_sharpe_ratio(self),
    calculate_sortino_ratio(self),
    calculate_downside_volatility(self),
    calculate_excess_returns(self).total_excess_returns,
    calculate_excess_returns(self).annualized_excess_returns,
    calculate_alpha_beta(self, benchmark_returns).alpha,
    calculate_tracking_error(self, benchmark_returns),
    calculate_alpha_beta(self, benchmark_returns).beta,
    calculate_beta_up_and_down(self, benchmark_returns).beta_up,
    calculate_beta_up_and_down(self, benchmark_returns).beta_down,
    calculate_maximum_drawdown(self)>>

(* The 14 entries of stats_list, in its order *)
stats_list(self, benchmark_returns) ==
  <<calculate_performance(self).val.annualized_return,
    calculate_performance(self).val.total_return,
    calculate_volatility(self),
    calculate_sharpe_ratio(self),
    calculate_sortino_ratio(self),
    calculate_downside_volatility(self),
    calculate_excess_returns(self).total_excess_returns,
    calculate_excess_returns(self).annualized_excess_returns,
    calculate_alpha_beta(self, benchmark_returns).beta,
    calculate_tracking_error(self, benchmark_returns),
    calculate_alpha_beta(self, benchmark_returns).alpha,
    calculate_beta_up_and_down(self, benchmark_returns).beta_up,
    calculate_beta_up_and_down(self, benchmark_returns).beta_down,
    calculate_maximum_drawdown(self)>>

(* A reporting_stats in which an empty series gives not-a-number entries *)
reporting_stats_nan(self, benchmark_returns) ==
  IF ~calculate_performance(self).ok THEN Ok([i \in 1..14 |-> NaNv])
  ELSE Ok(stats_list(self, benchmark_returns))

(* reporting_stats(benchmark_returns): calculate_performance comes first   *)
(* and is the one call in it that can raise                                *)
reporting_stats(self, benchmark_returns) ==
  IF ~calculate_performance(self).ok THEN calculate_performance(self)
  ELSE Ok(stats_list(self, benchmark_returns))

----------------------------------------------------------------------------
(* Portfolio (portfolio.py).  self.funds is the sequence of the entries of *)
(* the dict, in insertion order.                                           *)

(* An add_fund that keeps the series that a name already has *)
add_fund_keep(fs, name, nav_series) ==
  IF \E k \in DOMAIN fs : fs[k].name = name THEN fs
  ELSE Append(fs, [name |-> name, series |-> nav_series])

add_fund(fs, name, nav_series) ==
  IF \E k \in DOMAIN fs : fs[k].name = name
  THEN [k \in DOMAIN fs |->
          IF fs[k].name = name THEN [name |-> name, series |-> nav_series]
          ELSE fs[k]]
  ELSE Append(fs, [name |-> name, series |-> nav_series])

(* A fill_portfolio that loads every selection, selected before or not *)
AlreadySelected_never(list_file, filename) == FALSE

(* filename in list_file *)
AlreadySelected(list_file, filename) == filename \in Range(list_file)

(* Names that count the selections from 0 *)
FundLabel_from_zero(i) == <<"fund 0", "fund 1", "fund 2", "fund 3", "fund 4">>[i]

(* What a call of load_nav_data and a line of print leave in the log *)
Loaded(filename) == [event |-> "load_nav_data", text |-> filename]

Printed(text) == [event |-> "print", text |-> text]

(* "fund " + str(i + 1) for the i-th selection, counted from 1 here *)
FundLabel(i) == <<"fund 1", "fund 2", "fund 3", "fund 4", "fund 5">>[i]

(* The state of fill_portfolio before any selection: the funds of the      *)
(* portfolio, an empty list_file, a new NavLoader, nothing raised          *)
FillStart(fs) ==
  [funds |-> fs, list_file |-> <<>>, nav_data |-> EmptyFrame, log |-> <<>>,
   ret |-> Ok(NoVal)]

(* One turn of the loop of fill_portfolio on the file selected, for each   *)
(* outcome of the load                                                     *)
FillTurn(s, i, filename, file) ==
  IF ~s.ret.ok THEN {s}
  ELSE IF AlreadySelected(s.list_file, filename)
  THEN {[s EXCEPT !.log = Append(@, Printed("This fund was already added to the portfolio"))]}
  ELSE {[funds |-> IF o.ret.ok THEN add_fund(s.funds, FundLabel(i), o.ret.val)
                   ELSE s.funds,
         list_file |-> Append(s.list_file, filename),
         nav_data |-> o.nav_data,
         log |-> Append(s.log, Loaded(filename)),
         ret |-> IF o.ret.ok THEN s.ret ELSE o.ret] :
          o \in load_nav_data(file, s.nav_data)}

(* The states after the first i selections; disk gives the file of a path  *)
RECURSIVE FillLoop(_, _, _, _)
FillLoop(fs, selected, disk, i) ==
  IF i = 0 THEN {FillStart(fs)}
  ELSE UNION {FillTurn(s, i, selected[i], disk[selected[i]]) :
                s \in FillLoop(fs, selected, disk, i - 1)}

(* fill_portfolio(nb_funds) when the file dialog gives selected[1],        *)
(* selected[2], ... : the funds afterwards, the value returned or the      *)
(* exception raised, and the loads and messages of the call                *)
fill_portfolio(fs, nb_funds, selected, disk) ==
  {[funds |-> s.funds,
    ret |-> IF s.ret.ok THEN Ok(s.funds) ELSE s.ret,
    log |-> s.log] : s \in FillLoop(fs, selected, disk, nb_funds)}

(* series[label] on a series with an integer index *)
HasLabel(df, label) == \E i \in 1..NRows(df) : df.index[i] = label

AtLabel(df, name, label) ==
  Column(df, name)[CHOOSE i \in 1..NRows(df) : df.index[i] = label]

(* (a - b).days for two Timestamps whose times of day are less than a day  *)
(* apart: the whole days, rounded down                                     *)
DeltaDays(a, b) == (a.a - b.a) + (IF a.b < b.b THEN -1 ELSE 0)

PeriodicityError ==
  [Exc("Exception") EXCEPT
     !.args = <<"Data have to be daily or monthly to compute the calculations">>]

(* A delta taken between the first two dates *)
delta_time_first(df) == DeltaDays(AtLabel(df, "Date", 1), AtLabel(df, "Date", 0))

(* delta_time = dates[2] - dates[1] *)
delta_time(df) == DeltaDays(AtLabel(df, "Date", 2), AtLabel(df, "Date", 1))

_periodicity_adjustment(df) ==
  IF ~HasCol(df, "Date") THEN Raise(Exc("KeyError"))
  ELSE IF ~HasLabel(df, 2) \/ ~HasLabel(df, 1) THEN Raise(Exc("KeyError"))
  ELSE IF AtLabel(df, "Date", 2).k # "ts" \/ AtLabel(df, "Date", 1).k # "ts"
  THEN Raise(Exc("TypeError"))
  ELSE IF delta_time(df) < 7 THEN Ok(252)
  ELSE IF 27 < delta_time(df) /\ delta_time(df) <= 31 THEN Ok(12)
  ELSE Raise(PeriodicityError)

(* The name a column gets in a merge when both tables have it *)
Suffixed(name, side) ==
  CASE name = "NAV" /\ side = "x" -> "NAV_x"
    [] name = "NAV" /\ side = "y" -> "NAV_y"
    [] name = "RF" /\ side = "x" -> "RF_x"
    [] name = "RF" /\ side = "y" -> "RF_y"
    [] OTHER -> name

MergedColumns(left, right) ==
  LET others(df) == SelectSeq(df.columns, LAMBDA c : c # "Date")
      named(df, other, side) ==
        [j \in DOMAIN others(df) |->
           IF others(df)[j] \in Range(others(other))
           THEN Suffixed(others(df)[j], side) ELSE others(df)[j]]
  IN  <<"Date">> \o named(left, right, "x") \o named(right, left, "y")

WithoutDate(df, row) ==
  SelectIdx(row, [j \in DOMAIN row |-> df.columns[j] # "Date"])

(* The rows that left rows i.. give: each with every right row of its date *)
RECURSIVE MergedRows(_, _, _)
MergedRows(left, right, i) ==
  IF i > NRows(left) THEN <<>>
  ELSE LET date == Column(left, "Date")[i]
           hits == SelectIdx(right.data,
                     [j \in 1..NRows(right) |-> Column(right, "Date")[j] = date])
       IN  [h \in DOMAIN hits |->
              <<date>> \o WithoutDate(left, left.data[i]) \o WithoutDate(right, hits[h])]
           \o MergedRows(left, right, i + 1)

(* A merge that keeps the left rows without a match, their right columns  *)
(* missing                                                                 *)
merge_left(left, right) ==
  IF ~HasCol(left, "Date") \/ ~HasCol(right, "Date") THEN Raise(Exc("KeyError"))
  ELSE LET alone == SelectSeq(left.data,
                      LAMBDA r : \A j \in 1..NRows(right) :
                                   Column(right, "Date")[j] # r[ColPos(left, "Date")])
           rows == MergedRows(left, right, 1) \o
                   [i \in DOMAIN alone |->
                      <<alone[i][ColPos(left, "Date")]>> \o WithoutDate(left, alone[i])
                      \o [j \in 1..(Len(right.columns) - 1) |-> NaN]]
       IN  Ok(DataFrame(MergedColumns(left, right), RangeIndex(Len(rows)), rows))

(* pd.merge(left, right, on = 'Date', how = 'inner') *)
merge(left, right) ==
  IF ~HasCol(left, "Date") \/ ~HasCol(right, "Date") THEN Raise(Exc("KeyError"))
  ELSE LET rows == MergedRows(left, right, 1)
       IN  Ok(DataFrame(MergedColumns(left, right), RangeIndex(Len(rows)), rows))

(* The pair (merged table, periodicity), or the exception raised *)
_merging_data_periodicity(fund, aqr) ==
  LET periodicity == _periodicity_adjustment(fund)
      key == IF periodicity.val = 252 THEN "Daily" ELSE "Monthly"
  IN  IF ~periodicity.ok THEN periodicity
      ELSE IF key \notin DOMAIN aqr THEN Raise(Exc("KeyError"))
      ELSE IF ~merge(fund, aqr[key]).ok THEN merge(fund, aqr[key])
      ELSE Ok(<<merge(fund, aqr[key]).val, periodicity.val>>)

(* df_data_to_calculate_stats and the periodicity of one fund, or the      *)
(* exception raised                                                        *)
JoinedData(fund, rf, benchmark) ==
  LET merged == _merging_data_periodicity(fund, rf)
      joined == merge(merged.val[1], benchmark)
  IN  IF ~merged.ok THEN merged
      ELSE IF ~joined.ok THEN joined
      ELSE IF Len(joined.val.columns) # 4 THEN Raise(Exc("ValueError"))
      ELSE Ok(<<[joined.val EXCEPT !.columns = <<"Date", "NAV Fund", "RF", "Bench">>],
                merged.val[2]>>)

(* DescriptiveStatistics2(data[column], data['RF'], periodicity) *)
StatsOn(joined, column) ==
  DescriptiveStatistics2(SeriesOfCells(joined[1], column),
                         SeriesOfCells(joined[1], "RF"), joined[2])

(* The column of one fund in the report, or the exception raised *)
FundStats(fund, rf, benchmark) ==
  LET joined == JoinedData(fund, rf, benchmark)
  IN  IF ~joined.ok THEN joined
      ELSE reporting_stats(StatsOn(joined.val, "NAV Fund"),
                           calculate_daily_returns(StatsOn(joined.val, "Bench")))

ReportIndex ==
  <<"Perf annualisee", "Perf totale", "Vol", "Sharpe", "Sortino", "Downside vol",
    "Rendement excedentaire total", "Rendemente excedentaire annualise", "beta",
    "TE", "alpha", "beta up", "beta down", "MDD">>

(* reporting[name] = column *)
AssignList(report, name, column) ==
  IF report.columns = <<>>
  THEN DataFrame(<<name>>, RangeIndex(Len(column)),
                 [i \in DOMAIN column |-> <<column[i]>>])
  ELSE DataFrame(Append(report.columns, name), report.index,
                 [i \in DOMAIN column |-> Append(report.data[i], column[i])])

(* A loop of reporting that keeps the data of the first fund for all funds *)
RECURSIVE ReportFunds_first(_, _, _, _, _)
ReportFunds_first(fs, rf, benchmark, report, k) ==
  IF k > Len(fs) THEN Ok(report)
  ELSE IF ~FundStats(fs[1].series, rf, benchmark).ok
  THEN FundStats(fs[1].series, rf, benchmark)
  ELSE ReportFunds_first(fs, rf, benchmark,
         AssignList(report, fs[k].name, FundStats(fs[1].series, rf, benchmark).val),
         k + 1)

(* The loop of reporting over the funds k..: ReportNext puts the column of *)
(* fund k in the report and goes on, or stops at the exception raised      *)
RECURSIVE ReportFunds(_, _, _, _, _)
RECURSIVE ReportNext(_, _, _, _, _, _)
ReportNext(fs, rf, benchmark, report, k, column) ==
  IF ~column.ok THEN column
  ELSE ReportFunds(fs, rf, benchmark,
                   AssignList(report, fs[k].name, column.val), k + 1)

ReportFunds(fs, rf, benchmark, report, k) ==
  IF k > Len(fs) THEN Ok(report)
  ELSE ReportNext(fs, rf, benchmark, report, k,
                  FundStats(fs[k].series, rf, benchmark))

(* reporting.rename(index, axis = 0) on the report filled *)
rename(filled) ==
  IF ~filled.ok THEN filled
  ELSE Ok([filled.val EXCEPT
             !.index = [i \in DOMAIN filled.val.index |->
                          ReportIndex[filled.val.index[i] + 1]]])

reporting(fs, rf, benchmark) ==
  rename(ReportFunds(fs, rf, benchmark, EmptyFrame, 1))

----------------------------------------------------------------------------
(* FactorAnalysis (factor_analysis.py).  The fit of the least squares is   *)
(* kept as a term over the returns y and the rows x of the factors.        *)
FactorAnalysis(nav_series, factors_data) ==
  [nav_series |-> nav_series, factors_data |-> factors_data,
   returns |-> pct_change(nav_series)]

(* add_constant leaves x as it is when a column of x is constant and not 0 *)
HasConstant(x) ==
  \E j \in DOMAIN x[1] : x[1][j].n # 0 /\ \A i \in DOMAIN x : x[i][j] = x[1][j]

(* A regression on the factors without their first row dropped: each      *)
(* return meets the factors of the date before                             *)
_regression_analysis_lagged(self) ==
  LET y == self.returns.data
      x == SubSeq(self.factors_data, 1, Len(self.factors_data) - 1)
  IN  IF y = <<>> THEN Raise(Exc("ValueError"))
      ELSE Ok([k |-> "ols", y |-> y, x |-> x, const |-> ~HasConstant(x)])

(* sm.OLS(y, add_constant(x)).fit(): no fit without observations *)
_regression_analysis(self) ==
  LET y == self.returns.data
      x == SubSeq(self.factors_data, 2, Len(self.factors_data))
  IN  IF y = <<>> THEN Raise(Exc("ValueError"))
      ELSE Ok([k |-> "ols", y |-> y, x |-> x, const |-> ~HasConstant(x)])

(* model.params.drop('const'): one coefficient per factor *)
calculate_factor_loadings(self) ==
  LET model == _regression_analysis(self)
  IN  IF ~model.ok THEN model
      ELSE IF ~model.val.const THEN Raise(Exc("KeyError"))
      ELSE Ok([j \in DOMAIN factors_list |->
                 [k |-> "coef", of |-> factors_list[j], fit |-> model.val]])

summarize_results(self) ==
  LET model == _regression_analysis(self)
  IN  IF ~model.ok THEN model ELSE Ok([k |-> "summary", fit |-> model.val])

(* The loadings and the summary of the fund whose data merged with the     *)
(* factors is df, or the exception raised                                  *)
AnalysisOf(name, analysis, loadings) ==
  IF ~loadings.ok THEN loadings
  ELSE Ok([name |-> name, loadings |-> loadings.val,
           summary |-> summarize_results(analysis).val])

Analysed(name, analysis) ==
  AnalysisOf(name, analysis, calculate_factor_loadings(analysis))

AnalysisOn(name, df, others) ==
  IF \E j \in DOMAIN factors_list : ~HasCol(df, factors_list[j])
  THEN Raise(Exc("KeyError"))
  ELSE IF Len(others) # 1 THEN Raise(Exc("ValueError"))
  ELSE Analysed(name,
         FactorAnalysis(SeriesOfCells(df, others[1]),
                        [i \in 1..NRows(df) |->
                           [j \in DOMAIN factors_list |->
                              Q(Column(df, factors_list[j])[i].a, 10)]]))

MergedAnalysis(name, merged) ==
  IF ~merged.ok THEN merged
  ELSE AnalysisOn(name, merged.val[1],
                  SelectSeq(merged.val[1].columns,
                            LAMBDA c : c \notin {"Date"} \cup Range(factors_list)))

FundAnalysis(name, fund, dict_aqr) ==
  MergedAnalysis(name, _merging_data_periodicity(fund, dict_aqr))

(* df_factor_loadings[name] = loadings *)
AssignLoadings(table, name, loadings) ==
  DataFrame(Append(table.columns, name), factors_list,
            [j \in DOMAIN factors_list |->
               (IF table.columns = <<>> THEN <<>> ELSE table.data[j])
                 \o <<loadings[j]>>])

(* The loop of factorial_analysis over the funds k..: AnalyseNext puts the *)
(* results of fund k in the tables and goes on, or stops at the exception  *)
RECURSIVE AnalyseFunds(_, _, _, _, _)
RECURSIVE AnalyseNext(_, _, _, _, _, _)
AnalyseNext(fs, dict_aqr, df_factor_loadings, list_analysis_summary, k, one) ==
  IF ~one.ok THEN one
  ELSE AnalyseFunds(fs, dict_aqr,
         AssignLoadings(df_factor_loadings, fs[k].name, one.val.loadings),
         Append(list_analysis_summary, one.val.summary), k + 1)

AnalyseFunds(fs, dict_aqr, df_factor_loadings, list_analysis_summary, k) ==
  IF k > Len(fs)
  THEN Ok([factor_loadings |-> df_factor_loadings,
           summary |-> list_analysis_summary])
  ELSE AnalyseNext(fs, dict_aqr, df_factor_loadings, list_analysis_summary, k,
                   FundAnalysis(fs[k].name, fs[k].series, dict_aqr))

factorial_analysis(fs, dict_aqr) == AnalyseFunds(fs, dict_aqr, EmptyFrame, <<>>, 1)

----------------------------------------------------------------------------
(* Assignments to tables (portfolio.py).  reporting and factorial_analysis *)
(* each assign the column names of one table per fund; the table assigned  *)
(* is an object, and the tables of the caller are the objects "fund" (the  *)
(* series of the fund at hand), "panel" (the entry joined with it) and     *)
(* "benchmark".                                                            *)

(* An operation that hands back its left operand *)
NewObject_left(left, right) == left

(* pd.merge(left, right) and df.drop(columns, axis=1) return a new table *)
NewObject(left, right) == "new"

(* df_data_to_calculate_stats.columns = [...]: the object assigned for a   *)
(* fund whose joined data is given, "none" when the call raises before the *)
(* assignment is made                                                      *)
ReportingTarget(joined) ==
  IF ~joined.ok THEN "none" ELSE NewObject(NewObject("fund", "panel"), "benchmark")

(* nav_series.columns = [name], nav_series being df.drop(...) of the       *)
(* merged table                                                            *)
AnalysisTarget(merged) ==
  IF ~merged.ok THEN "none"
  ELSE IF \E j \in DOMAIN factors_list : ~HasCol(merged.val[1], factors_list[j])
  THEN "none"
  ELSE IF Len(merged.val[1].columns) # 7 THEN "none"
  ELSE NewObject(NewObject("fund", "panel"), "drop")

(* The turn of one fund in the loop of reporting goes through: the joins   *)
(* succeed and reporting_stats, which raises on an empty series alone,     *)
(* returns                                                                 *)
ReportingTurn(joined) == joined.ok /\ NRows(joined.val[1]) > 0

(* The object assigned in the turn of each fund from fund k on: the loop   *)
(* stops at the first turn that raises                                     *)
RECURSIVE ReportingTargets(_, _, _, _)
RECURSIVE ReportingTargetsOn(_, _, _, _, _)
ReportingTargetsOn(fs, rf, benchmark, k, joined) ==
  <<ReportingTarget(joined)>> \o
    (IF ReportingTurn(joined) THEN ReportingTargets(fs, rf, benchmark, k + 1)
     ELSE [i \in 1..(Len(fs) - k) |-> "none"])

ReportingTargets(fs, rf, benchmark, k) ==
  IF k > Len(fs) THEN <<>>
  ELSE ReportingTargetsOn(fs, rf, benchmark, k,
                          JoinedData(fs[k].series, rf, benchmark))

RECURSIVE AnalysisTargets(_, _, _)
AnalysisTargets(fs, dict_aqr, k) ==
  IF k > Len(fs) THEN <<>>
  ELSE <<AnalysisTarget(_merging_data_periodicity(fs[k].series, dict_aqr))>> \o
         (IF FundAnalysis(fs[k].name, fs[k].series, dict_aqr).ok
          THEN AnalysisTargets(fs, dict_aqr, k + 1)
          ELSE [i \in 1..(Len(fs) - k) |-> "none"])

(* A table of the caller after the assignments: its column names are those *)
(* assigned when it is an object assigned                                  *)
AfterWrite(table, object, targets, columns) ==
  IF \E k \in DOMAIN targets : targets[k] = object
  THEN [table EXCEPT !.columns = columns[CHOOSE k \in DOMAIN targets :
                                            targets[k] = object]]
  ELSE table

(* self.funds after the call: the series of fund k is the object "fund" of *)
(* turn k                                                                  *)
FundsAfter(fs, targets, columns) ==
  [k \in DOMAIN fs |->
     [fs[k] EXCEPT !.series = AfterWrite(fs[k].series, "fund", <<targets[k]>>,
                                         <<columns[k]>>)]]

ReportColumns(fs) == [k \in DOMAIN fs |-> <<"Date", "NAV Fund", "RF", "Bench">>]

AnalysisColumns(fs) == [k \in DOMAIN fs |-> <<fs[k].name>>]

----------------------------------------------------------------------------
(* Input files.  arg.file is what the program reads; arg.src records what  *)
(* the file was written from (the program never reads it).                 *)

NoData == EmptyFrame

Missing == <<0, 0>>

Garbage == <<0, 1>>

LogicalDates == {<<1, 2>>, <<2, 1>>, <<1, 13>>}

NavValues == {1000, 979}

TextKinds == {"iso", "dot", "dmy", "mdy"}

(* The kinds of date and value columns of the generated files *)
KindCombos ==
  {<<"ts", "num">>, <<"iso", "num">>, <<"iso", "comma">>, <<"dot", "num">>,
   <<"dmy", "num">>, <<"mdy", "num">>}

(* The cell that holds date d = <<month, day>> in a column of kind dk *)
DateCell(dk, d) ==
  CASE d = Missing -> NaN
    [] d = Garbage -> Lit("n.d.")
    [] d \notin {Missing, Garbage} /\ dk = "ts" -> Ts(DayNum(d[1], d[2]), 0)
    [] d \notin {Missing, Garbage} /\ dk = "iso" -> Iso(d[1], d[2])
    [] d \notin {Missing, Garbage} /\ dk = "dot" -> Dot(d[2], d[1])
    [] d \notin {Missing, Garbage} /\ dk = "dmy" -> Slash(d[2], d[1])
    [] d \notin {Missing, Garbage} /\ dk = "mdy" -> Slash(d[1], d[2])

(* The cell that holds value v (tenths, 0 for a missing value) *)
ValueCell(vk, v) ==
  IF v = 0 THEN NaN
  ELSE IF vk = "num" THEN Num(v)
  ELSE Comma(v \div 10, v % 10)

ExtOfKind(dk) == IF dk = "ts" THEN ".xlsx" ELSE ".csv"

LogicalRows(dk) ==
  [d : LogicalDates \cup {Missing} \cup (IF dk = "ts" THEN {} ELSE {Garbage}),
   v : NavValues \cup {0}]

NavFile(dk, vk, rows) ==
  [path |-> [name |-> "fund", ext |-> ExtOfKind(dk)],
   readable |-> TRUE,
   lines |-> <<<<Lit("Date"), Lit("NAV")>>>> \o
             [i \in DOMAIN rows |->
                <<DateCell(dk, rows[i].d), ValueCell(vk, rows[i].v)>>]]

NavArg(dk, vk, rows) ==
  [kind |-> "nav", file |-> NavFile(dk, vk, rows),
   src |-> [dk |-> dk, vk |-> vk, rows |-> rows, junk |-> 0,
            header |-> <<"Date", "NAV">>]]

(* Files that differ in extension, junk rows and header *)
HeaderNames == DateNames \cup {"Date de valorisation"} \cup ValueNames \cup {"Other"}

Headers ==
  {h \in UNION {[1..n -> HeaderNames] : n \in 1..MaxCols} :
     \A i, j \in DOMAIN h : i # j => h[i] # h[j]}

FileKinds ==
  {<<e, TRUE>> : e \in {".csv", ".CSV", ".xlsx", ".xls", ".txt"}}
    \cup {<<".csv", FALSE>>}

HdrRows == <<[d |-> <<1, 2>>, v |-> 1000], [d |-> <<1, 13>>, v |-> 979]>>

IsDateName(n) == n \in DateNames \cup {"Date de valorisation"}

HdrCell(ext, name, row) ==
  IF IsDateName(name)
  THEN DateCell(IF Lower(ext) \in {".xlsx", ".xls"} THEN "ts" ELSE "iso", row.d)
  ELSE IF name \in ValueNames THEN Num(row.v)
  ELSE Lit("x")

HdrFile(kind, junk, header) ==
  [path |-> [name |-> "fund", ext |-> kind[1]],
   readable |-> kind[2],
   lines |-> [i \in 1..junk |-> [j \in DOMAIN header |-> Lit("junk")]] \o
             <<[j \in DOMAIN header |-> Lit(header[j])]>> \o
             [i \in DOMAIN HdrRows |->
                [j \in DOMAIN header |-> HdrCell(kind[1], header[j], HdrRows[i])]]]

HdrArg(kind, junk, header) ==
  [kind |-> "nav", file |-> HdrFile(kind, junk, header),
   src |-> [dk |-> IF Lower(kind[1]) \in {".xlsx", ".xls"} THEN "ts" ELSE "iso",
            vk |-> "num", rows |-> HdrRows, junk |-> junk, header |-> header]]

(* Tables handed to _header_row: each row holds, in one of two columns, a  *)
(* header alias, a name that is no alias, or a number; the table has named *)
(* columns or not                                                          *)
HeaderKinds == {"junk", "Date", "DATE", "Date de valorisation", "date", "number"}

HeaderTable(kinds, col, named) ==
  DataFrame(IF named THEN <<"Date", "NAV">> ELSE <<"Unnamed", "Unnamed">>,
            RangeIndex(Len(kinds)),
            [i \in DOMAIN kinds |->
               [j \in 1..2 |->
                  IF j # col THEN Lit("junk")
                  ELSE IF kinds[i] = "number" THEN Num(1000) ELSE Lit(kinds[i])]])

HeaderArg(kinds, col, named) ==
  [kind |-> "header", rows |-> kinds, df |-> HeaderTable(kinds, col, named)]

(* Tables handed to _float_converter: a Date column of texts or of         *)
(* timestamps and two columns that are numeric, texts with a decimal comma *)
(* or point, other texts, numbers among texts, or texts with a None        *)
FloatKinds == {"num", "comma", "point", "text", "mixed", "none"}

FloatCell(fk, i) ==
  CASE fk = "num" -> Num(1000 + i)
    [] fk = "comma" -> Comma(100, i)
    [] fk = "point" -> Point(100, i)
    [] fk = "text" -> Lit("n.d.")
    [] fk = "mixed" -> IF i = 1 THEN Num(1000 + i) ELSE Comma(100, i)
    [] fk = "none" -> IF i = 1 THEN Comma(100, i) ELSE NoneCell

FloatArg(dk, kinds) ==
  [kind |-> "float", kinds |-> kinds,
   df |-> DataFrame(<<"Date", "NAV", "Other">>, RangeIndex(2),
            [i \in 1..2 |->
               <<IF dk = "ts" THEN Ts(i, 0) ELSE Iso(1, i),
                 FloatCell(kinds[1], i), FloatCell(kinds[2], i)>>])]

(* AQR workbooks: one sheet per factor and one for the risk-free rate,    *)
(* each with a DATE column and one column per investment universe.         *)
SheetNames == Range(factors_list) \cup {"RF"}

AqrFileKinds == {<<".xlsx", TRUE>>, <<".xls", TRUE>>, <<".csv", TRUE>>, <<".xlsx", FALSE>>}

AqrDates == {<<1, 2>>, <<1, 13>>}

AqrDateSpecs(dk) == AqrDates \cup {Missing} \cup (IF dk = "ts" THEN {} ELSE {Garbage})

SheetHeader(name, dateHeader) ==
  IF name = "RF" THEN <<"DATE", "Risk Free Rate">>
  ELSE <<(IF name = "MKT" THEN dateHeader ELSE "DATE"), "Global", "US">>

(* The value of sheet `name` in column j of row i, in tenths *)
SheetValue(name, j, i) ==
  (CHOOSE k \in 1..6 : Append(factors_list, "RF")[k] = name) * 100 + j * 10 + i

AqrSheet(name, absent, dateHeader, junk, dk, dates) ==
  LET header == SheetHeader(name, dateHeader)
  IN  [present |-> name # absent,
       lines |-> [i \in 1..junk |-> [j \in DOMAIN header |-> Lit("junk")]] \o
                 <<[j \in DOMAIN header |-> Lit(header[j])]>> \o
                 [i \in DOMAIN dates |->
                    [j \in DOMAIN header |->
                       IF j = 1 THEN DateCell(dk, dates[i])
                       ELSE Num(SheetValue(name, j, i))]]]

AqrArg(kind, absent, dateHeader, universe, junk, dk, dates) ==
  [kind |-> "aqr",
   file |-> [path |-> [name |-> "aqr", ext |-> kind[1]],
             readable |-> kind[2],
             sheets |-> [n \in SheetNames |->
                           AqrSheet(n, absent, dateHeader, junk, dk, dates)]],
   src |-> [dk |-> dk, universe |-> universe, absent |-> absent,
            dateHeader |-> dateHeader, junk |-> junk, dates |-> dates]]

(* Workbooks whose sheets need not agree: one sheet of factors starts one  *)
(* date later than the others ("late"), or has no value on the first date  *)
(* ("hole"); the value of a sheet on the p-th date is SheetValue(.., p).   *)
SheetVariants == {"same", "late", "hole"}

VariantSheet(name, variant, dk, dates) ==
  LET header == SheetHeader(name, "DATE")
      first == IF variant = "late" THEN 2 ELSE 1
  IN  [present |-> TRUE,
       lines |-> <<[j \in DOMAIN header |-> Lit(header[j])]>> \o
                 [i \in 1..(Len(dates) - first + 1) |->
                    LET p == i + first - 1
                    IN  [j \in DOMAIN header |->
                           IF j = 1 THEN DateCell(dk, dates[p])
                           ELSE IF variant = "hole" /\ p = 1 THEN NaN
                           ELSE Num(SheetValue(name, j, p))]]]

SheetsArg(universe, dk, dates, variant, sheet) ==
  [kind |-> "aqr",
   file |-> [path |-> [name |-> "aqr", ext |-> ".xlsx"],
             readable |-> TRUE,
             sheets |-> [n \in SheetNames |->
                           VariantSheet(n, IF n = sheet THEN variant ELSE "same",
                                        dk, dates)]],
   src |-> [dk |-> dk, universe |-> universe, dates |-> dates,
            variant |-> variant, sheet |-> sheet]]

(* The workbooks given to fill_factors: one with daily dates, one with     *)
(* monthly dates, one without the RF sheet                                 *)
FactorBook(name, absent, dates) ==
  [AqrArg(<<".xlsx", TRUE>>, absent, "DATE", "Global", 0, "ts", dates).file
     EXCEPT !.path.name = name]

FactorBooks ==
  {FactorBook("daily", "none", <<<<1, 2>>, <<1, 3>>>>),
   FactorBook("monthly", "none", <<<<1, 2>>, <<2, 2>>>>),
   FactorBook("no rf", "RF", <<<<1, 2>>, <<1, 3>>>>)}

(* Series for the periodicity: the first date and then one date per gap,  *)
(* in days, with the index that the loaders give.                          *)
Gaps == {-1, 0, 1, 6, 7, 15, 27, 28, 30, 31, 32}

RECURSIVE DayAfter(_, _)
DayAfter(gaps, i) == IF i = 0 THEN 0 ELSE DayAfter(gaps, i - 1) + gaps[i]

(* The value, in tenths, of row i of a column: funds go up and down,      *)
(* the risk-free rate is 0 or a half, the benchmark moves otherwise        *)
Level(name, i) ==
  CASE name = "RF" -> IF i % 2 = 0 THEN 5 ELSE 0
    [] name = "Bench" -> <<1000, 4000, 2000, 1000, 2000>>[((i - 1) % 5) + 1]
    [] OTHER -> IF i % 2 = 0 THEN 2000 ELSE 1000

SeriesOfDays(days, name) ==
  DataFrame(<<"Date", name>>, RangeIndex(Len(days)),
            [i \in DOMAIN days |-> <<Ts(days[i], 0), Num(Level(name, i))>>])

GapSeries(n, gaps) == SeriesOfDays([i \in 1..n |-> DayAfter(gaps, i - 1)], "NAV")

PeriodArg(n, gaps) == [kind |-> "period", df |-> GapSeries(n, gaps), gaps |-> gaps]

(* The files that the dialog of fill_portfolio can give: two NAV files     *)
(* and one of a kind that NavLoader does not read                          *)
FundPaths ==
  {[name |-> "a", ext |-> ".csv"], [name |-> "b", ext |-> ".xlsx"],
   [name |-> "c", ext |-> ".txt"]}

Disk ==
  [path \in FundPaths |->
     [path |-> path, readable |-> TRUE,
      lines |-> <<<<Lit("Date"), Lit("NAV")>>>> \o
                [i \in 1..2 |->
                   CASE path.ext = ".xlsx" ->
                          <<Ts(DayNum(1, 1) + 30 * i, 0), Num(Level("NAV", i))>>
                     [] OTHER -> <<Iso(1, i), Num(Level("NAV", i + 1))>>]]]

(* Statistics objects as Portfolio.reporting builds them: the NAV of the  *)
(* fund, the risk-free rate and the NAV of the benchmark on the rows of    *)
(* one joined table, in tenths.                                            *)
FundLevels == {1000, 2000, 4000}

(* Risk-free rates over n rows: none, constant, or every other row *)
RateSeries(n) ==
  {[i \in 1..n |-> 0], [i \in 1..n |-> 5], [i \in 1..n |-> IF i % 2 = 0 THEN 5 ELSE 0]}

BenchLevels == {1000, 2000}

Periodicities == {12, 252}

SeriesOfLevels(levels) ==
  Series(RangeIndex(Len(levels)), [i \in DOMAIN levels |-> Q(levels[i], 10)])

StatsArg(nav, rf, bench, periodicity) ==
  [kind |-> "stats", nav |-> nav, rf |-> rf, bench |-> bench,
   self |-> DescriptiveStatistics2(SeriesOfLevels(nav), SeriesOfLevels(rf), periodicity),
   benchmark_returns |->
     calculate_daily_returns(
       DescriptiveStatistics2(SeriesOfLevels(bench), SeriesOfLevels(rf), periodicity))]

(* NAV series handed to calculate_performance alone, in tenths, 0 standing *)
(* for a missing value; and a series of 250 rows whose total return is     *)
(* 0.125                                                                   *)
ScenarioNav == [i \in 1..250 |-> IF i = 250 THEN 1125 ELSE 1000]

PerfSeries(levels) ==
  Series(RangeIndex(Len(levels)),
         [i \in DOMAIN levels |-> IF levels[i] = 0 THEN NaNv ELSE Q(levels[i], 10)])

PerfArg(nav, periodicity) ==
  [kind |-> "performance", nav |-> nav,
   self |-> DescriptiveStatistics2(PerfSeries(nav), SeriesOfLevels(<<>>), periodicity)]

(* Portfolios: funds that are daily, monthly, fortnightly, too short, or   *)
(* daily on other dates; risk-free panels and benchmarks that share their  *)
(* dates or not.                                                           *)
FundDays == {<<0, 1, 2>>, <<0, 30, 60>>, <<0, 15, 30>>, <<0, 1>>, <<100, 101, 102>>}

FundSeries == {SeriesOfDays(days, "NAV") : days \in FundDays}

AllFundNames == <<"fund 1", "fund 2", "fund 3", "fund 4", "fund 5">>

FundNames == {AllFundNames[i] : i \in 1..MaxFunds}

RfPanels ==
  {[p \in {"Daily", "Monthly"} |->
      SeriesOfDays(IF p = "Daily" THEN daily ELSE <<0, 30, 60>>, "RF")] :
     daily \in {<<0, 1, 2>>, <<1, 2>>}}

(* The panels of factors: a table of the five factors per periodicity *)
FactorTable(days) ==
  DataFrame(<<"Date">> \o factors_list, RangeIndex(Len(days)),
            [i \in DOMAIN days |->
               <<Ts(days[i], 0)>> \o
               [j \in DOMAIN factors_list |-> Num(10 * j + (days[i] % 7))]])

AqrPanels ==
  {[p \in {"Daily", "Monthly"} |->
      FactorTable(IF p = "Daily" THEN daily ELSE <<0, 30, 60>>)] :
     daily \in {<<0, 1, 2>>, <<1, 2>>}}

(* Alignments: funds that are daily, monthly, too short, fortnightly, or   *)
(* daily by their second gap alone; panels of risk-free rates or of        *)
(* factors whose entries share the dates of the fund or not, repeat a date *)
(* or lack the monthly entry                                               *)
AlignFundDays ==
  {<<0, 1, 2>>, <<0, 1, 2, 3>>, <<0, 30, 60>>, <<0, 1>>, <<0, 15, 30>>,
   <<0, 1, 30>>, <<0, 1, 2, 30>>, <<5, 6, 7>>}

AlignDaily == {<<0, 1, 2>>, <<1, 2>>, <<0, 1, 2, 3>>, <<0, 2, 2>>, <<0, 1, 30>>}

AlignMonthly == {<<0, 30, 60>>, <<30, 60>>, <<1, 30, 61>>}

PanelTable(content, days) ==
  IF content = "RF" THEN SeriesOfDays(days, "RF") ELSE FactorTable(days)

AlignPanels ==
  {[p \in {"Daily", "Monthly"} |->
      PanelTable(content, IF p = "Daily" THEN daily ELSE monthly)] :
     content \in {"RF", "factors"}, daily \in AlignDaily, monthly \in AlignMonthly}
  \cup {[p \in {"Daily"} |-> PanelTable("RF", daily)] : daily \in AlignDaily}

AlignArg(days, panel) ==
  [kind |-> "align", days |-> days, fund |-> SeriesOfDays(days, "NAV"), panel |-> panel]

(* A benchmark is a table of load_nav_data: its columns are Date and NAV *)
Benchmarks ==
  {[SeriesOfDays(days, "Bench") EXCEPT !.columns = <<"Date", "NAV">>] :
     days \in {<<0, 1, 2, 30, 60>>, <<0, 30, 60>>}}

----------------------------------------------------------------------------
(* Actions *)

(* One call of NavLoader.load_nav_data(arg.file) *)
LoadNavData ==
  /\ ret = NotCalled
  /\ arg.kind = "nav"
  /\ \E o \in load_nav_data(arg.file, nav_data) :
       /\ ret' = o.ret
       /\ nav_data' = o.nav_data
  /\ op' = "load_nav_data"
  /\ UNCHANGED <<arg, funds, log, aqr_data, rf_data>>

(* One call of AqrLoader.load_aqr_factor(arg.file, universe) *)
LoadAqrFactor ==
  /\ ret = NotCalled
  /\ arg.kind = "aqr"
  /\ ret' \in load_aqr_factor(arg.file, arg.src.universe)
  /\ op' = "load_aqr_factor"
  /\ UNCHANGED <<arg, nav_data, funds, log, aqr_data, rf_data>>

(* One call of AqrLoader.load_rf(arg.file) *)
LoadRf ==
  /\ ret = NotCalled
  /\ arg.kind = "aqr"
  /\ ret' \in load_rf(arg.file)
  /\ op' = "load_rf"
  /\ UNCHANGED <<arg, nav_data, funds, log, aqr_data, rf_data>>

(* One call of Portfolio._periodicity_adjustment(arg.df) *)
PeriodicityAdjustment ==
  /\ ret = NotCalled
  /\ arg.kind = "period"
  /\ ret' = _periodicity_adjustment(arg.df)
  /\ op' = "_periodicity_adjustment"
  /\ UNCHANGED <<arg, nav_data, funds, log, aqr_data, rf_data>>

(* One call of DataFormating._header_row(arg.df) *)
HeaderRow ==
  /\ ret = NotCalled
  /\ arg.kind = "header"
  /\ ret' = Ok(_header_row(arg.df))
  /\ op' = "_header_row"
  /\ UNCHANGED <<arg, nav_data, funds, log, aqr_data, rf_data>>

(* One call of DataFormating._float_converter(arg.df) *)
FloatConverter ==
  /\ ret = NotCalled
  /\ arg.kind = "float"
  /\ ret' = _float_converter(arg.df)
  /\ op' = "_float_converter"
  /\ UNCHANGED <<arg, nav_data, funds, log, aqr_data, rf_data>>

(* One call of Portfolio._merging_data_periodicity(arg.fund, arg.panel) *)
MergingDataPeriodicity ==
  /\ ret = NotCalled
  /\ arg.kind = "align"
  /\ ret' = _merging_data_periodicity(arg.fund, arg.panel)
  /\ op' = "_merging_data_periodicity"
  /\ UNCHANGED <<arg, nav_data, funds, log, aqr_data, rf_data>>

(* A second call, on the table that the first returned and the same panel *)
MergingDataPeriodicityAgain ==
  /\ op = "_merging_data_periodicity"
  /\ arg.kind = "align"
  /\ ret.ok
  /\ ret' = _merging_data_periodicity(ret.val[1], arg.panel)
  /\ arg' = [kind |-> "aligned", days |-> arg.days, fund |-> ret.val[1],
             panel |-> arg.panel]
  /\ op' = "_merging_data_periodicity"
  /\ UNCHANGED <<nav_data, funds, log, aqr_data, rf_data>>

(* One call of DescriptiveStatistics2.reporting_stats(benchmark_returns) *)
ReportingStats ==
  /\ ret = NotCalled
  /\ arg.kind = "stats"
  /\ ret' = reporting_stats(arg.self, arg.benchmark_returns)
  /\ op' = "reporting_stats"
  /\ UNCHANGED <<arg, nav_data, funds, log, aqr_data, rf_data>>

(* One call of DescriptiveStatistics2.calculate_performance() *)
CalculatePerformance ==
  /\ ret = NotCalled
  /\ arg.kind = "performance"
  /\ ret' = calculate_performance(arg.self)
  /\ op' = "calculate_performance"
  /\ UNCHANGED <<arg, nav_data, funds, log, aqr_data, rf_data>>

(* One call of Portfolio.fill_portfolio(nb_funds), the dialog giving the   *)
(* files selected                                                          *)
FillPortfolio ==
  /\ arg.kind = "fill"
  /\ \E nb_funds \in 0..(IF funds = <<>> THEN MaxSelections ELSE MaxFunds) :
       \E selected \in [1..nb_funds -> FundPaths] :
         /\ arg' = [kind |-> "fill", nb_funds |-> nb_funds, selected |-> selected]
         /\ \E o \in fill_portfolio(funds, nb_funds, selected, Disk) :
              /\ funds' = o.funds
              /\ ret' = o.ret
              /\ log' = o.log
  /\ op' = "fill_portfolio"
  /\ UNCHANGED <<nav_data, aqr_data, rf_data>>

(* One call of AqrLoader.fill_factors(paths, universe) *)
FillFactors ==
  /\ arg.kind = "factors"
  /\ \E n \in 0..MaxPaths, universe \in {"Global", "Mars"} :
       \E paths \in [1..n -> FactorBooks] :
         /\ arg' = [kind |-> "factors", paths |-> paths, universe |-> universe]
         /\ \E o \in fill_factors(aqr_data, rf_data, paths, universe) :
              /\ aqr_data' = o.aqr_data
              /\ rf_data' = o.rf_data
              /\ ret' = o.ret
  /\ op' = "fill_factors"
  /\ UNCHANGED <<nav_data, funds, log>>

(* One call of Portfolio.add_fund(name, nav_series) *)
AddFund ==
  /\ arg.kind = "portfolio"
  /\ \E name \in FundNames, nav_series \in FundSeries :
       /\ funds' = add_fund(funds, name, nav_series)
       /\ arg' = [kind |-> "portfolio", name |-> name, nav_series |-> nav_series]
  /\ ret' = Ok(NoVal)
  /\ op' = "add_fund"
  /\ UNCHANGED <<nav_data, log, aqr_data, rf_data>>

(* One call of Portfolio.factorial_analysis(dict_aqr): what it returns,    *)
(* and the tables of the caller after the assignments it made              *)
AnalysisCall(dict_aqr, targets, columns) ==
  /\ ret' = factorial_analysis(funds, dict_aqr)
  /\ funds' = FundsAfter(funds, targets, columns)
  /\ arg' = [kind |-> "portfolio", dict_aqr |-> dict_aqr,
             after |->
               [dict_aqr |->
                  [p \in DOMAIN dict_aqr |->
                     AfterWrite(dict_aqr[p], "panel", targets, columns)]]]

FactorialAnalysis ==
  /\ arg.kind = "portfolio"
  /\ \E dict_aqr \in AqrPanels :
       AnalysisCall(dict_aqr, AnalysisTargets(funds, dict_aqr, 1), AnalysisColumns(funds))
  /\ op' = "factorial_analysis"
  /\ UNCHANGED <<nav_data, log, aqr_data, rf_data>>

(* One call of Portfolio.reporting(rf, benchmark): what it returns, and    *)
(* the tables of the caller after the assignments it made                  *)
ReportingCall(rf, benchmark, targets, columns) ==
  /\ ret' = reporting(funds, rf, benchmark)
  /\ funds' = FundsAfter(funds, targets, columns)
  /\ arg' = [kind |-> "portfolio", rf |-> rf, benchmark |-> benchmark,
             after |->
               [rf |-> [p \in DOMAIN rf |->
                          AfterWrite(rf[p], "panel", targets, columns)],
                benchmark |-> AfterWrite(benchmark, "benchmark", targets, columns)]]

Reporting ==
  /\ arg.kind = "portfolio"
  /\ \E rf \in RfPanels, benchmark \in Benchmarks :
       ReportingCall(rf, benchmark, ReportingTargets(funds, rf, benchmark, 1),
                     ReportColumns(funds))
  /\ op' = "reporting"
  /\ UNCHANGED <<nav_data, log, aqr_data, rf_data>>

Idle ==
  /\ op = ""
  /\ nav_data = NoData
  /\ funds = <<>>
  /\ ret = NotCalled
  /\ log = <<>>
  /\ aqr_data = Dict
  /\ rf_data = Dict

InitNav ==
  /\ \E kinds \in KindCombos :
       \E rows \in SeqsUpTo(LogicalRows(kinds[1]), MaxRows) :
         arg = NavArg(kinds[1], kinds[2], rows)
  /\ Idle

InitHdr ==
  /\ \E kind \in FileKinds, junk \in 0..MaxJunk, header \in Headers :
       arg = HdrArg(kind, junk, header)
  /\ Idle

InitAqr ==
  /\ \E kind \in AqrFileKinds, absent \in {"none", "UMD", "RF"},
        dateHeader \in {"DATE", "Date"}, universe \in {"Global", "Mars"},
        junk \in 0..MaxJunk, dk \in {"ts", "mdy"} :
       \E dates \in SeqsUpTo(AqrDateSpecs(dk), MaxAqrRows) :
         arg = AqrArg(kind, absent, dateHeader, universe, junk, dk, dates)
  /\ Idle

InitPeriod ==
  /\ \E n \in 0..MaxPoints :
       \E gaps \in [1..(n - 1) -> Gaps] : arg = PeriodArg(n, gaps)
  /\ Idle

InitPortfolio ==
  /\ arg = [kind |-> "portfolio"]
  /\ Idle

InitFill ==
  /\ arg = [kind |-> "fill"]
  /\ Idle

InitFactors ==
  /\ arg = [kind |-> "factors"]
  /\ Idle

InitSheets ==
  /\ \E universe \in {"Global", "US"}, dk \in {"ts", "mdy"},
        variant \in SheetVariants, sheet \in Range(factors_list) :
       \E dates \in SeqsUpTo(AqrDateSpecs(dk), MaxAqrRows) :
         arg = SheetsArg(universe, dk, dates, variant, sheet)
  /\ Idle

InitFormat ==
  /\ \/ \E kinds \in SeqsUpTo(HeaderKinds, MaxRows), col \in 1..2, named \in BOOLEAN :
          arg = HeaderArg(kinds, col, named)
     \/ \E dk \in {"ts", "iso"}, kinds \in FloatKinds \X FloatKinds :
          arg = FloatArg(dk, kinds)
  /\ Idle

InitAlign ==
  /\ \E days \in AlignFundDays, panel \in AlignPanels : arg = AlignArg(days, panel)
  /\ Idle

InitStats ==
  /\ \/ \E n \in 0..MaxObs, periodicity \in Periodicities :
          \E nav \in [1..n -> FundLevels], rf \in RateSeries(n),
             bench \in [1..n -> BenchLevels] :
            arg = StatsArg(nav, rf, bench, periodicity)
     \/ \E n \in 0..MaxObs, periodicity \in Periodicities :
          \E nav \in [1..n -> FundLevels \cup {0}] : arg = PerfArg(nav, periodicity)
     \/ arg = PerfArg(ScenarioNav, 252)
  /\ Idle

SpecNav == InitNav /\ [][LoadNavData]_vars

SpecHdr == InitHdr /\ [][LoadNavData]_vars

NextLoad == LoadNavData \/ LoadAqrFactor \/ LoadRf

SpecLoad == (InitHdr \/ InitAqr) /\ [][NextLoad]_vars

SpecPeriod == InitPeriod /\ [][PeriodicityAdjustment]_vars

NextPortfolio == AddFund \/ Reporting \/ FactorialAnalysis

SpecPortfolio == InitPortfolio /\ [][NextPortfolio]_vars

SpecFill == InitFill /\ [][FillPortfolio]_vars

SpecFactors == InitFactors /\ [][FillFactors]_vars

SpecSheets == InitSheets /\ [][LoadAqrFactor]_vars

NextFormat == HeaderRow \/ FloatConverter

SpecFormat == InitFormat /\ [][NextFormat]_vars

NextAlign == MergingDataPeriodicity \/ MergingDataPeriodicityAgain

SpecAlign == InitAlign /\ [][NextAlign]_vars

NextStats == ReportingStats \/ CalculatePerformance

SpecStats == InitStats /\ [][NextStats]_vars

----------------------------------------------------------------------------
(* What the claims speak of *)

Called == ret # NotCalled

Returned == Called /\ ret.ok

(* The rows of the input in which both the date and the value are present *)
KeptRows == SelectSeq(arg.src.rows, LAMBDA r : r.d # Missing /\ r.v # 0)

LogicalTs(d) == IF d = Garbage THEN Lit("n.d.") ELSE Ts(DayNum(d[1], d[2]), 0)

(* The output row that input row r stands for: its date and its value *)
ExpectedRow(r) == <<LogicalTs(r.d), Num(r.v)>>

StrictlyAscending(rows) ==
  \A i \in 1..(Len(rows) - 1) :
    /\ rows[i].d # Garbage /\ rows[i + 1].d # Garbage
    /\ TsLT(LogicalTs(rows[i].d), LogicalTs(rows[i + 1].d))

OutDates == Column(ret.val, "Date")

(* The header names one date column and one value column, as the loader    *)
(* knows them, and nothing else but columns named "Other"                  *)
PlainHeader(dateNames) ==
  /\ Cardinality({j \in DOMAIN arg.src.header : arg.src.header[j] \in dateNames}) = 1
  /\ Cardinality({j \in DOMAIN arg.src.header : arg.src.header[j] \in ValueNames}) = 1
  /\ \A j \in DOMAIN arg.src.header :
       arg.src.header[j] \in dateNames \cup ValueNames \cup {"Other"}

----------------------------------------------------------------------------
(* C1: load_nav_data returns a two-column table (Date, NAV) that holds     *)
(* exactly the input rows in which both the date and the value are         *)
(* present, ordered ascending by date and indexed 0..n-1; an input that is *)
(* already in ascending date order comes out in the input order.           *)
C1_ReturnsPresentRowsSorted ==
  (Returned /\ PlainHeader(DateNames)) =>
    /\ ret.val.columns = <<"Date", "NAV">>
    /\ NRows(ret.val) = Len(KeptRows)
    /\ ret.val.index = RangeIndex(Len(KeptRows))
    /\ \E p \in Perms(Len(KeptRows)) :
         \A i \in 1..Len(KeptRows) : ret.val.data[i] = ExpectedRow(KeptRows[p[i]])
    /\ \A i \in 1..(NRows(ret.val) - 1) : TsLE(OutDates[i], OutDates[i + 1])
    /\ StrictlyAscending(KeptRows) =>
         ret.val.data = [i \in 1..Len(KeptRows) |-> ExpectedRow(KeptRows[i])]

C3_ColumnsByHeader ==
  (Returned /\ PlainHeader(DateNames)) =>
    /\ Range(Column(ret.val, "Date")) = {LogicalTs(r.d) : r \in Range(KeptRows)}
    /\ Range(Column(ret.val, "NAV")) = {Num(r.v) : r \in Range(KeptRows)}

(* C4: a readable file with a supported extension whose date header is one *)
(* of the four date aliases and whose value header is one of the seven     *)
(* value aliases loads, with or without junk rows before the header.       *)
C4_AliasesLoad ==
  ( /\ Called
    /\ PlainHeader(DateNames \cup {"Date de valorisation"})
    /\ IsDateName(arg.src.header[1])
    /\ arg.file.readable
    /\ Lower(arg.file.path.ext) \in SupportedNav ) => ret.ok

(* The 'Date' column that _clean_dataframe hands to _date_converter parses *)
(* under neither the generic parse nor any of the four formats             *)
NavDatesUnparsed ==
  /\ Nav_load_file(arg.file).ok
  /\ SelectedFrame(Nav_load_file(arg.file).val).ok
  /\ _date_converter(SelectedFrame(Nav_load_file(arg.file).val).val).unset

(* C6: when the Date column parses under no format, the load fails with a  *)
(* load error instead of returning a table.                                *)
C6_UnparsedDatesFail ==
  (Called /\ NavDatesUnparsed) => (~ret.ok /\ ret.exc.type = "DataImportError")

(* What load_nav_data may return for the rows written as YYYY-MM-DD *)
IsoOutcomes(rows) ==
  {o.ret : o \in load_nav_data(NavFile("iso", arg.src.vk, rows), NoData)}

(* C7: for the same dates and values load_nav_data returns the same table  *)
(* whichever of the four formats the dates are written in, the table of    *)
(* the file written YYYY-MM-DD.                                            *)
C7_SameTableAnyFormat ==
  (Called /\ arg.src.dk \in TextKinds) => ret \in IsoOutcomes(arg.src.rows)

(* The call made fails for a cause that no later step can repair: an       *)
(* unsupported extension, an unreadable file, a sheet that the operation   *)
(* reads and the workbook lacks, or no column of the asked universe.       *)
LoadMustFail ==
  \/ op = "load_nav_data" /\ (Lower(arg.file.path.ext) \notin SupportedNav
                              \/ ~arg.file.readable)
  \/ op \in {"load_aqr_factor", "load_rf"}
       /\ (Lower(arg.file.path.ext) \notin SupportedAqr \/ ~arg.file.readable)
  \/ op = "load_aqr_factor" /\ arg.src.absent = "UMD"
  \/ op = "load_rf" /\ arg.src.absent = "RF"
  \/ op = "load_aqr_factor" /\ arg.src.universe \notin {"Global", "US"}

C9_ShortSeriesSameError ==
  (op = "_periodicity_adjustment" /\ NRows(arg.df) < 3) =>
    ret = Raise(PeriodicityError)

DatesOf(df) == Range(Column(df, "Date"))

(* No date of the fund is both in the risk-free series of its periodicity  *)
(* and in the benchmark                                                    *)
JoinEmpty(fund, rf, benchmark) ==
  /\ _periodicity_adjustment(fund).ok
  /\ LET key == IF _periodicity_adjustment(fund).val = 252 THEN "Daily" ELSE "Monthly"
     IN  DatesOf(fund) \cap DatesOf(rf[key]) \cap DatesOf(benchmark) = {}

FundFails(fund, rf, benchmark) ==
  ~_periodicity_adjustment(fund).ok \/ JoinEmpty(fund, rf, benchmark)

(* C10: Portfolio.reporting either returns a report whose columns are the  *)
(* funds of the portfolio, one column each, or raises and returns nothing; *)
(* it raises when the periodicity of a fund cannot be inferred or when the *)
(* join of a fund with the risk-free series and the benchmark is empty.    *)
C10_ReportAllFundsOrRaise ==
  op = "reporting" =>
    /\ ret.ok => ret.val.columns = [k \in DOMAIN funds |-> funds[k].name]
    /\ ~ret.ok => ret.val = NoVal
    /\ (\E k \in DOMAIN funds :
          FundFails(funds[k].series, arg.rf, arg.benchmark)) => ~ret.ok

(* reporting raised on a portfolio of two funds of which the first has     *)
(* its statistics and the second an empty join                             *)
C10_Witness ==
  /\ op = "reporting"
  /\ Len(funds) = 2
  /\ ~FundFails(funds[1].series, arg.rf, arg.benchmark)
  /\ JoinEmpty(funds[2].series, arg.rf, arg.benchmark)
  /\ ~ret.ok

(* The metrics in the order of the specification *)
MetricNames ==
  <<"annualized return", "total return", "volatility", "Sharpe", "Sortino",
    "downside volatility", "total excess return", "annualized excess return",
    "beta", "tracking error", "alpha", "beta-up", "beta-down", "maximum drawdown">>

(* The value of a metric on a statistics object *)
Metric(name, self, benchmark_returns) ==
  CASE name = "annualized return" -> calculate_performance(self).val.annualized_return
    [] name = "total return" -> calculate_performance(self).val.total_return
    [] name = "volatility" -> calculate_volatility(self)
    [] name = "Sharpe" -> calculate_sharpe_ratio(self)
    [] name = "Sortino" -> calculate_sortino_ratio(self)
    [] name = "downside volatility" -> calculate_downside_volatility(self)
    [] name = "total excess return" -> calculate_excess_returns(self).total_excess_returns
    [] name = "annualized excess return" ->
         calculate_excess_returns(self).annualized_excess_returns
    [] name = "beta" -> calculate_alpha_beta(self, benchmark_returns).beta
    [] name = "tracking error" -> calculate_tracking_error(self, benchmark_returns)
    [] name = "alpha" -> calculate_alpha_beta(self, benchmark_returns).alpha
    [] name = "beta-up" -> calculate_beta_up_and_down(self, benchmark_returns).beta_up
    [] name = "beta-down" -> calculate_beta_up_and_down(self, benchmark_returns).beta_down
    [] name = "maximum drawdown" -> calculate_maximum_drawdown(self)

(* The row label that names a metric *)
LabelOf(name) ==
  CASE name = "annualized return" -> "Perf annualisee"
    [] name = "total return" -> "Perf totale"
    [] name = "volatility" -> "Vol"
    [] name = "Sharpe" -> "Sharpe"
    [] name = "Sortino" -> "Sortino"
    [] name = "downside volatility" -> "Downside vol"
    [] name = "total excess return" -> "Rendement excedentaire total"
    [] name = "annualized excess return" -> "Rendemente excedentaire annualise"
    [] name = "beta" -> "beta"
    [] name = "tracking error" -> "TE"
    [] name = "alpha" -> "alpha"
    [] name = "beta-up" -> "beta up"
    [] name = "beta-down" -> "beta down"
    [] name = "maximum drawdown" -> "MDD"

(* The statistics object of fund k of the portfolio in the reporting call  *)
(* made, and the returns of its benchmark                                  *)
FundObject(k) ==
  StatsOn(JoinedData(funds[k].series, arg.rf, arg.benchmark).val, "NAV Fund")

FundBenchmark(k) ==
  calculate_daily_returns(
    StatsOn(JoinedData(funds[k].series, arg.rf, arg.benchmark).val, "Bench"))

(* C11: the column of every fund in a report has exactly 14 entries, the   *)
(* metrics in the order annualized return, total return, volatility,       *)
(* Sharpe, Sortino, downside volatility, total excess return, annualized   *)
(* excess return, beta, tracking error, alpha, beta-up, beta-down, maximum *)
(* drawdown, and the 14 rows are labelled with the names of these metrics  *)
(* in the same order.                                                      *)
C11_FourteenMetricsInOrder ==
  (op = "reporting" /\ ret.ok /\ funds # <<>>) =>
    /\ Len(ret.val.data) = 14
    /\ ret.val.index = [i \in 1..14 |-> LabelOf(MetricNames[i])]
    /\ \A k \in DOMAIN funds : \A i \in 1..14 :
         ret.val.data[i][k] = Metric(MetricNames[i], FundObject(k), FundBenchmark(k))

(* A report of two funds in which the beta and the alpha of the first are  *)
(* two different numbers                                                   *)
C11_Witness ==
  /\ op = "reporting"
  /\ ret.ok
  /\ Len(funds) = 2
  /\ ret.val.data[9][1].k = "q"
  /\ ret.val.data[11][1].k = "q"
  /\ ret.val.data[9][1] # ret.val.data[11][1]
  /\ ret.val.index[9] = "beta"

(* The excess returns of the benchmark of the statistics call, from the    *)
(* levels given: bench[t] / bench[t-1] - 1 - rf[t] for every row t but the *)
(* first                                                                   *)
BenchExcess ==
  [t \in 1..(Len(arg.bench) - 1) |->
     QSub(QSub(Q(arg.bench[t + 1], arg.bench[t]), QInt(1)), Q(arg.rf[t + 1], 10))]

AllEqual(x) == \A i, j \in DOMAIN x : x[i] = x[j]

(* The number of benchmark excess returns at or above their mean *)
UpPoints ==
  Cardinality({t \in DOMAIN BenchExcess :
                 QLe(QDiv(Sum(BenchExcess), QInt(Len(BenchExcess))), BenchExcess[t])})

Undefined(v) == v.k \in {"nan", "inf"}

(* C12: on a non-empty NAV series reporting_stats raises nothing and       *)
(* returns 14 entries; when the excess-return series is empty the excess   *)
(* returns, the ratios built on them, alpha and the betas are not-a-number *)
(* or infinite; when the benchmark excess has no variance alpha and the    *)
(* betas are not-a-number; a beta-up or beta-down over at most one point   *)
(* is not-a-number.                                                        *)
C12_UndefinedMetricNotFatal ==
  (op = "reporting_stats" /\ Len(arg.nav) >= 1) =>
    /\ ret.ok
    /\ Len(ret.val) = 14
    /\ Len(arg.nav) = 1 =>
         \A i \in {4, 5, 7, 8, 9, 11, 12, 13} : Undefined(ret.val[i])
    /\ AllEqual(BenchExcess) =>
         \A i \in {9, 11, 12, 13} : ret.val[i] = NaNv
    /\ UpPoints <= 1 => ret.val[12] = NaNv
    /\ Len(BenchExcess) - UpPoints <= 1 => ret.val[13] = NaNv

(* A series of three rows whose benchmark excess has no variance: beta is  *)
(* not-a-number and the volatility and the drawdown are numbers            *)
C12_Witness ==
  /\ op = "reporting_stats"
  /\ Len(arg.nav) = 3
  /\ AllEqual(BenchExcess)
  /\ ret.ok
  /\ ret.val[9] = NaNv
  /\ ret.val[3].k = "sqrt"
  /\ ret.val[14].k = "q"

(* The ratio that the rule of saturation gives for an annualised excess    *)
(* return and a volatility                                                 *)
RatioRule(excess, vol) ==
  IF vol = QInt(0)
  THEN (IF excess.k # "nan" /\ Sign(excess) = 1 THEN Inf(1) ELSE Inf(-1))
  ELSE Quot(excess, vol)

(* C18: the Sharpe ratio is a signed infinity exactly when the annualised  *)
(* volatility is 0, +infinity for a positive annualised excess return and  *)
(* -infinity otherwise, and it is the quotient of the two for every other  *)
(* volatility; the Sortino ratio follows the same rule with the downside   *)
(* volatility; the call raises nothing.                                    *)
C18_RatiosSaturateOnlyAtZero ==
  (op = "reporting_stats" /\ Len(arg.nav) >= 1) =>
    /\ ret.ok
    /\ ret.val[4].k = "inf" <=> ret.val[3] = QInt(0)
    /\ ret.val[4] = RatioRule(ret.val[8], ret.val[3])
    /\ ret.val[5].k = "inf" <=> ret.val[6] = QInt(0)
    /\ ret.val[5] = RatioRule(ret.val[8], ret.val[6])

(* Constant returns below a risk-free rate that varies: no volatility, a   *)
(* Sharpe ratio of -infinity, and a Sortino ratio that is a quotient       *)
C18_Witness ==
  /\ op = "reporting_stats"
  /\ ret.ok
  /\ ret.val[3] = QInt(0)
  /\ ret.val[4] = Inf(-1)
  /\ ret.val[6].k = "sqrt"
  /\ ret.val[5].k = "quot"

(* The rows after the first on which the return of the fund is below the   *)
(* risk-free rate, from the levels given                                   *)
DownsideDates ==
  {t \in 2..Len(arg.nav) :
     QLt(QSub(Q(arg.nav[t], arg.nav[t - 1]), QInt(1)), Q(arg.rf[t], 10))}

(* C19: the downside volatility is a defined value >= 0 whatever the       *)
(* number of dates on which the return of the fund is below the risk-free  *)
(* rate, and exactly 0 when there is no such date.                         *)
C19_DownsideVolatilityDefined ==
  (op = "reporting_stats" /\ ret.ok) =>
    /\ ret.val[6].k \in {"q", "sqrt"}
    /\ ret.val[6].k = "q" => ret.val[6].n >= 0
    /\ DownsideDates = {} => ret.val[6] = QInt(0)

(* The fund of the statistics call has the return of the benchmark on      *)
(* every row                                                               *)
TracksBenchmark ==
  \A t \in 2..Len(arg.nav) :
    arg.nav[t] * arg.bench[t - 1] = arg.bench[t] * arg.nav[t - 1]

(* C20: beta is the covariance of the excess returns of the fund and of    *)
(* the benchmark over the variance of the latter, both with one estimator, *)
(* so that a fund with the excess returns of the benchmark on every date   *)
(* has beta 1 and alpha 0; both are not-a-number when the aligned series   *)
(* is empty or the excess returns of the benchmark have no variance.       *)
C20_BetaOfBenchmarkIsOne ==
  (op = "reporting_stats" /\ ret.ok) =>
    /\ (Len(arg.nav) = 1 \/ AllEqual(BenchExcess)) =>
         ret.val[9] = NaNv /\ ret.val[11] = NaNv
    /\ (TracksBenchmark /\ ~AllEqual(BenchExcess)) =>
         ret.val[9] = QInt(1) /\ ret.val[11] = QInt(0)

(* The positions of the selections of a path that was not selected before  *)
FirstSelections(selected) ==
  {i \in DOMAIN selected : \A j \in 1..(i - 1) : selected[j] # selected[i]}

(* The loads and the messages of the last call of fill_portfolio *)
LoadsOf(filename) ==
  Cardinality({i \in DOMAIN log : log[i] = Loaded(filename)})

Messages ==
  Cardinality({i \in DOMAIN log :
                 log[i] = Printed("This fund was already added to the portfolio")})

OneLoadPerPath ==
  /\ \A filename \in FundPaths :
       LoadsOf(filename) = IF filename \in Range(arg.selected) THEN 1 ELSE 0
  /\ Messages = Len(arg.selected) - Cardinality(Range(arg.selected))
  /\ Len(log) = Len(arg.selected)

C14_FirstPathDailySecondMonthly ==
  (op = "fill_factors" /\ ret.ok /\ Len(arg.paths) = 2) =>
    /\ DOMAIN aqr_data = {"Daily", "Monthly"}
    /\ DOMAIN rf_data = {"Daily", "Monthly"}
    /\ Ok(aqr_data["Daily"]) \in load_aqr_factor(arg.paths[1], arg.universe)
    /\ Ok(aqr_data["Monthly"]) \in load_aqr_factor(arg.paths[2], arg.universe)
    /\ Ok(rf_data["Daily"]) \in load_rf(arg.paths[1])
    /\ Ok(rf_data["Monthly"]) \in load_rf(arg.paths[2])
    /\ ret.val = <<aqr_data, rf_data>>

(* The workbook with monthly dates given first and the one with daily      *)
(* dates second: the tables under the two keys differ                      *)
C14_Witness ==
  /\ op = "fill_factors"
  /\ ret.ok
  /\ Len(arg.paths) = 2
  /\ arg.paths[1].path.name = "monthly"
  /\ arg.paths[2].path.name = "daily"
  /\ aqr_data["Daily"] # aqr_data["Monthly"]
  /\ NRows(aqr_data["Daily"]) = 2

(* Sheet `name` of the workbook lists the p-th date, with a value *)
Lists(name, p) ==
  /\ p \in 1..Len(arg.src.dates)
  /\ arg.src.sheet = name => ~(arg.src.variant \in {"late", "hole"} /\ p = 1)

UniverseColumn == IF arg.src.universe = "Global" THEN 2 ELSE 3

(* Row r of the table returned holds the p-th date and, for each factor,   *)
(* the value that the sheet of the factor lists for that date              *)
PairsDate(r, p) ==
  /\ arg.src.dates[p] \notin {Missing, Garbage}
  /\ ret.val.data[r][1] = Ts(DayNum(arg.src.dates[p][1], arg.src.dates[p][2]), 0)
  /\ \A k \in DOMAIN factors_list :
       /\ Lists(factors_list[k], p)
       /\ ret.val.data[r][k + 1] = Num(SheetValue(factors_list[k], UniverseColumn, p))

(* The rows of the table returned that pair no date with the values of    *)
(* that date, among the rows whose date the loader has parsed              *)
Mispaired ==
  {r \in 1..NRows(ret.val) :
     /\ ret.val.data[r][1] # NoneCell
     /\ ~\E p \in DOMAIN arg.src.dates : PairsDate(r, p)}

NamesIn(fs) == {fs[k].name : k \in DOMAIN fs}

SeriesUnder(fs, name) == {fs[k].series : k \in {l \in DOMAIN fs : fs[l].name = name}}

(* C16: add_fund(name, series) leaves the portfolio with one entry for     *)
(* each name added so far, the series of this call under its name and the  *)
(* series of every other name as it was; hence each name holds the series  *)
(* of the last call made with it.                                          *)
C16_LastAddFundWins ==
  [][op' = "add_fund" =>
       /\ NamesIn(funds') = NamesIn(funds) \cup {arg'.name}
       /\ Len(funds') = Cardinality(NamesIn(funds'))
       /\ SeriesUnder(funds', arg'.name) = {arg'.nav_series}
       /\ \A name \in NamesIn(funds) \ {arg'.name} :
            SeriesUnder(funds', name) = SeriesUnder(funds, name)]_vars

(* The fund added first is added again after another fund: it is still     *)
(* the first of two and holds the series of the last call                  *)
C16_Witness ==
  /\ op = "add_fund"
  /\ Len(funds) = 2
  /\ funds[1].name = arg.name
  /\ funds[1].series = arg.nav_series
  /\ funds[2].series # arg.nav_series

(* The column of fund k in the table of the call made, and in the table    *)
(* that the same call gives on a portfolio that holds fund k alone         *)
ColumnIn(table, name) == [i \in DOMAIN table.data |-> table.data[i][ColPos(table, name)]]

AloneReport(k) == reporting(<<funds[k]>>, arg.rf, arg.benchmark)

AloneLoadings(k) == factorial_analysis(<<funds[k]>>, arg.dict_aqr)

(* C17: the column of a fund in the report, and its loadings, are those    *)
(* that the fund gets in a portfolio where it is alone, whatever the other *)
(* funds and the order in which they were added; two portfolios with the   *)
(* same series for the fund hence give it the same column and loadings.    *)
C17_FundsAreIndependent ==
  /\ (op = "reporting" /\ ret.ok) =>
       \A k \in DOMAIN funds :
         /\ AloneReport(k).ok
         /\ ColumnIn(ret.val, funds[k].name)
              = ColumnIn(AloneReport(k).val, funds[k].name)
  /\ (op = "factorial_analysis" /\ ret.ok) =>
       \A k \in DOMAIN funds :
         /\ AloneLoadings(k).ok
         /\ ColumnIn(ret.val.factor_loadings, funds[k].name)
              = ColumnIn(AloneLoadings(k).val.factor_loadings, funds[k].name)
         /\ ret.val.summary[k] = AloneLoadings(k).val.summary[1]

(* A report of two funds with different columns *)
C17_Witness ==
  /\ op = "reporting"
  /\ ret.ok
  /\ Len(funds) = 2
  /\ ColumnIn(ret.val, funds[1].name) # ColumnIn(ret.val, funds[2].name)

(* Loadings of two funds with different series *)
C17_LoadingsReached ==
  /\ op = "factorial_analysis"
  /\ ret.ok
  /\ Len(funds) = 2
  /\ ColumnIn(ret.val.factor_loadings, funds[1].name)
       # ColumnIn(ret.val.factor_loadings, funds[2].name)

(* The rows of the NAV series of the performance call that hold a value,   *)
(* and the power less one that the claim gives for them                    *)
PresentLevels == SelectSeq(arg.nav, LAMBDA l : l # 0)

ClaimedAnnualized(first, last, N, n) ==
  IF last = first THEN QInt(0)
  ELSE [k |-> "pow1", base |-> Q(last, first), e |-> Q(N, n)]

(* C21: calculate_performance returns total return NAV[last]/NAV[first]-1  *)
(* and annualized return (1 + total)^(N/n) - 1, n being the number of rows *)
(* of the NAV series once its missing values are dropped and N the         *)
(* annualization factor; with total 0.125, n = 250 and N = 252 this is     *)
(* (1.125)^(252/250) - 1.                                                  *)
C21_AnnualizedOverRowCount ==
  (op = "calculate_performance" /\ PresentLevels # <<>>) =>
    LET n == Len(PresentLevels)
        first == PresentLevels[1]
        last == PresentLevels[n]
    IN  /\ ret.ok
        /\ ret.val.total_return = Q(last - first, first)
        /\ ret.val.annualized_return
             = ClaimedAnnualized(first, last, arg.self.annualization, n)
        /\ arg.nav = ScenarioNav =>
             /\ ret.val.total_return = Q(125, 1000)
             /\ ret.val.annualized_return
                  = [k |-> "pow1", base |-> Q(1125, 1000), e |-> Q(252, 250)]

(* The series of 250 rows with total return 0.125 has been measured *)
C21_Witness ==
  /\ op = "calculate_performance"
  /\ ret.ok
  /\ arg.nav = ScenarioNav
  /\ arg.self.annualization = 252
  /\ ret.val.annualized_return.k = "pow1"

(* A series with a missing value among its three rows has been measured *)
C21_MissingRowReached ==
  /\ op = "calculate_performance"
  /\ ret.ok
  /\ Len(arg.nav) = 3
  /\ Len(PresentLevels) = 2
  /\ ret.val.annualized_return.k = "pow1"

(* _load_file fails on the file of the call: its extension is not one of   *)
(* the supported ones or the file cannot be read                           *)
LoadFileFails ==
  Lower(arg.file.path.ext) \notin SupportedNav \/ ~arg.file.readable

(* C22: a DataImportError that reaches the caller of load_nav_data names   *)
(* the class NavLoader and carries the file path of the call, and when the *)
(* failure occurred in _load_file it names the method _load_file.          *)
C22_ErrorNamesFailingMethod ==
  (op = "load_nav_data" /\ ~ret.ok) =>
    /\ ret.exc.type = "DataImportError"
    /\ ret.exc.cls = "NavLoader"
    /\ ret.exc.args = <<arg.file.path>>
    /\ LoadFileFails => ret.exc.method = "_load_file"

(* The entry of the panel that the periodicity returned names, and the     *)
(* pairs of a row of the fund and a row of that entry with the same date   *)
SelectedEntry == arg.panel[IF ret.val[2] = 252 THEN "Daily" ELSE "Monthly"]

DatePairs ==
  {p \in (1..NRows(arg.fund)) \X (1..NRows(SelectedEntry)) :
     Column(arg.fund, "Date")[p[1]] = Column(SelectedEntry, "Date")[p[2]]}

JoinedRow(p) ==
  <<Column(arg.fund, "Date")[p[1]]>>
    \o WithoutDate(arg.fund, arg.fund.data[p[1]])
    \o WithoutDate(SelectedEntry, SelectedEntry.data[p[2]])

(* C23: _merging_data_periodicity returns the inner join on Date of the    *)
(* fund with panel['Daily'] and 252, or with panel['Monthly'] and 12, the  *)
(* choice following the periodicity inferred from the fund (the gap        *)
(* between its second and third dates); a date is in the result if and     *)
(* only if it is in the fund and in the selected entry, and no row of the  *)
(* result has a missing value.                                             *)
C23_InnerJoinOnInferredPeriodicity ==
  (op = "_merging_data_periodicity" /\ arg.kind = "align" /\ ret.ok) =>
    /\ ret.val[2] = (IF arg.days[3] - arg.days[2] < 7 THEN 252 ELSE 12)
    /\ DatesOf(ret.val[1]) = DatesOf(arg.fund) \cap DatesOf(SelectedEntry)
    /\ Range(ret.val[1].data) = {JoinedRow(p) : p \in DatePairs}
    /\ NRows(ret.val[1]) = Cardinality(DatePairs)
    /\ \A i \in 1..NRows(ret.val[1]) : \A j \in DOMAIN ret.val[1].data[i] :
         ~IsNull(ret.val[1].data[i][j])

(* A monthly fund joined with the monthly factors, one of its dates absent *)
(* from them                                                               *)
C23_Witness ==
  /\ op = "_merging_data_periodicity"
  /\ arg.kind = "align"
  /\ ret.ok
  /\ ret.val[2] = 12
  /\ HasCol(ret.val[1], "UMD")
  /\ NRows(ret.val[1]) = 2
  /\ NRows(arg.fund) = 3

(* C24: for every fund and panel on which _merging_data_periodicity        *)
(* succeeds with a table T, the call on T and the same panel succeeds too  *)
(* and its table has as many rows as T.                                    *)
C24_RealignKeepsRowCount ==
  (op = "_merging_data_periodicity" /\ arg.kind = "aligned") =>
    /\ ret.ok
    /\ NRows(ret.val[1]) = NRows(arg.fund)

(* The factor table that the periodicity of fund k selects in the panels   *)
(* of the call, the rows of the fund whose date that table holds, and the  *)
(* factors it gives for a date, all read from the inputs                   *)
FactorEntry(k) ==
  arg.dict_aqr[IF _periodicity_adjustment(funds[k].series).val = 252
               THEN "Daily" ELSE "Monthly"]

CommonRows(k) ==
  SelectSeq(funds[k].series.data, LAMBDA r : r[1] \in DatesOf(FactorEntry(k)))

FactorsAt(k, date) ==
  LET row == FactorEntry(k).data[CHOOSE i \in 1..NRows(FactorEntry(k)) :
                                   FactorEntry(k).data[i][1] = date]
  IN  [j \in DOMAIN factors_list |-> Q(row[ColPos(FactorEntry(k), factors_list[j])].a, 10)]

(* The regression that the claim describes for fund k: the return at every *)
(* common date but the first, with the factors of that same date, and an   *)
(* intercept                                                               *)
ClaimedFit(k) ==
  [k |-> "ols",
   y |-> [t \in 1..(Len(CommonRows(k)) - 1) |->
            QSub(Q(CommonRows(k)[t + 1][2].a, CommonRows(k)[t][2].a), QInt(1))],
   x |-> [t \in 1..(Len(CommonRows(k)) - 1) |-> FactorsAt(k, CommonRows(k)[t + 1][1])],
   const |-> TRUE]

(* C25: in the factor regression of a fund the return at date t,           *)
(* NAV[t]/NAV[t-1] - 1 over the aligned rows but the first, is paired with *)
(* the five factor values of the same date t, so that both series have the *)
(* same length and dates; calculate_factor_loadings returns the five       *)
(* coefficients MKT, SMB, HML FF, HML Devil, UMD without the intercept;    *)
(* factorial_analysis returns one loadings column and one summary per fund *)
(* of the portfolio.                                                       *)
C25_ReturnsMeetFactorsOfTheirDate ==
  (op = "factorial_analysis" /\ ret.ok) =>
    /\ ret.val.factor_loadings.columns = [k \in DOMAIN funds |-> funds[k].name]
    /\ Len(ret.val.summary) = Len(funds)
    /\ funds # <<>> => ret.val.factor_loadings.index = factors_list
    /\ \A k \in DOMAIN funds :
         /\ Len(ClaimedFit(k).y) = Len(ClaimedFit(k).x)
         /\ ret.val.summary[k] = [k |-> "summary", fit |-> ClaimedFit(k)]
         /\ ColumnIn(ret.val.factor_loadings, funds[k].name)
              = [j \in DOMAIN factors_list |->
                   [k |-> "coef", of |-> factors_list[j], fit |-> ClaimedFit(k)]]

(* An analysis of two funds, one daily and one monthly, each with two      *)
(* returns                                                                 *)
C25_Witness ==
  /\ op = "factorial_analysis"
  /\ ret.ok
  /\ Len(funds) = 2
  /\ Len(ret.val.summary[1].fit.y) = 2
  /\ Len(ret.val.summary[2].fit.y) = 2
  /\ ret.val.summary[1].fit.x # ret.val.summary[2].fit.x

(* The rows of the table of the call that were written with one of the     *)
(* three date headers                                                      *)
HeaderPositions ==
  {i \in DOMAIN arg.rows : arg.rows[i] \in {"Date", "DATE", "Date de valorisation"}}

(* C26: _header_row returns i + 1 for the first row i, in document order   *)
(* and counted from 0, that holds a cell equal to 'Date', 'DATE' or 'Date  *)
(* de valorisation', whatever the rows after it, and 0 when no row holds   *)
(* such a cell; the result depends on the table alone.                     *)
C26_FirstHeaderRowWins ==
  op = "_header_row" =>
    /\ ret.ok
    /\ HeaderPositions = {} => ret.val = 0
    /\ \A i \in HeaderPositions :
         (\A h \in HeaderPositions : i <= h) => ret.val = (i - 1) + 1

(* A table whose second and third rows both hold a date header *)
C26_Witness ==
  /\ op = "_header_row"
  /\ HeaderPositions = {2, 3}
  /\ arg.rows[2] # arg.rows[3]
  /\ ret.val = 2

(* The two value columns of the table of the conversion call that hold     *)
(* numbers, and those that hold the text of a number                       *)
NumericColumns == {c \in 1..2 : arg.kinds[c] = "num"}

NumberTexts == {c \in 1..2 : arg.kinds[c] \in {"comma", "point"}}

(* C27: _float_converter leaves the Date column and every numeric column   *)
(* as they are; in a textual column it reads every decimal comma as a      *)
(* decimal point and converts the column to floating point, so that no     *)
(* column but Date holds a text in the table it returns; it returns when   *)
(* every other column is numeric or the text of numbers.                   *)
C27_OnlyTextColumnsConverted ==
  op = "_float_converter" =>
    /\ NumericColumns \cup NumberTexts = 1..2 => ret.ok
    /\ ret.ok =>
         /\ ret.val.columns = arg.df.columns
         /\ Column(ret.val, "Date") = Column(arg.df, "Date")
         /\ \A c \in NumericColumns : \A i \in 1..2 :
              ret.val.data[i][c + 1] = arg.df.data[i][c + 1]
         /\ \A c \in NumberTexts : \A i \in 1..2 :
              ret.val.data[i][c + 1] = Num(1000 + i)
         /\ \A c \in 1..2 : \A i \in 1..2 : ~IsStr(ret.val.data[i][c + 1])

(* A table with dates in text, a column of numbers with a decimal comma    *)
(* and a numeric column has been converted                                 *)
C27_Witness ==
  /\ op = "_float_converter"
  /\ ret.ok
  /\ arg.kinds = <<"comma", "num">>
  /\ IsStr(ret.val.data[1][1])
  /\ ret.val.data[2][2] = Num(1002)

(* The highest NAV of the statistics call on the rows 2..t, and the        *)
(* drawdown of row t: the running product of (1 + return) up to row t is   *)
(* NAV[t] / NAV[1], so that the drawdown is NAV[t] over that highest NAV,  *)
(* less one                                                                *)
PeakLevel(t) ==
  CHOOSE m \in {arg.nav[s] : s \in 2..t} : \A s \in 2..t : arg.nav[s] <= m

Drawdowns == {Q(arg.nav[t] - PeakLevel(t), PeakLevel(t)) : t \in 2..Len(arg.nav)}

NeverDecreases == \A t \in 2..Len(arg.nav) : arg.nav[t - 1] <= arg.nav[t]

(* C28: the maximum drawdown is the minimum over t of                      *)
(* (wealth[t] - peak[t]) / peak[t], wealth being the running product of    *)
(* (1 + return) and peak[t] the maximum of the wealth up to t; on positive *)
(* NAVs of at least two rows it is <= 0, and it is 0 when the NAV never    *)
(* decreases.                                                              *)
C28_DrawdownIsDeepestFallFromPeak ==
  (op = "reporting_stats" /\ Len(arg.nav) >= 2) =>
    /\ ret.ok
    /\ ret.val[14] \in Drawdowns
    /\ \A d \in Drawdowns : QLe(ret.val[14], d)
    /\ ret.val[14].n <= 0
    /\ NeverDecreases => ret.val[14] = QInt(0)

(* A NAV that doubles and then loses three quarters: the drawdown is -3/4  *)
C28_Witness ==
  /\ op = "reporting_stats"
  /\ arg.nav = <<2000, 4000, 1000>>
  /\ ret.ok
  /\ ret.val[14] = Q(-3, 4)

(* C29: a call of reporting or of factorial_analysis, whether it returns   *)
(* or raises, leaves the names and the NAV tables of the portfolio, the    *)
(* risk-free and factor panels and the benchmark it was given as they      *)
(* were, so that the calls that follow see the same inputs.                *)
C29_CallsLeaveInputsUnchanged ==
  [][/\ op' = "reporting" =>
          /\ funds' = funds
          /\ arg'.after.rf = arg'.rf
          /\ arg'.after.benchmark = arg'.benchmark
     /\ op' = "factorial_analysis" =>
          /\ funds' = funds
          /\ arg'.after.dict_aqr = arg'.dict_aqr]_vars

(* A report has been returned on two funds, whose tables and the benchmark *)
(* are as they were given                                                  *)
C29_Witness ==
  /\ op = "reporting"
  /\ ret.ok
  /\ Len(funds) = 2
  /\ arg.after.benchmark = arg.benchmark
  /\ funds[1].series.columns = <<"Date", "NAV">>

(* The selections of a call in which a file is selected for the first      *)
(* time, in their order                                                    *)
FirstSelected(selected) ==
  SelectIdx([i \in DOMAIN selected |-> i],
            [i \in DOMAIN selected |-> i \in FirstSelections(selected)])

(* C30: after fill_portfolio(n) on an empty portfolio in which every load  *)
(* succeeds, the funds stored are, in order, the files at their first      *)
(* selection, each named 'fund k' for the 1-based position k of that       *)
(* selection among the n; a repeated selection takes its number with it,   *)
(* so that the names need not be 'fund 1' .. 'fund m' for m funds.         *)
C30_NamedAfterFirstSelection ==
  [][(op' = "fill_portfolio" /\ ret'.ok /\ funds = <<>>) =>
       LET first == FirstSelected(arg'.selected)
       IN  /\ Len(funds') = Len(first)
           /\ \A m \in DOMAIN first :
                /\ funds'[m].name = AllFundNames[first[m]]
                /\ \E o \in load_nav_data(Disk[arg'.selected[first[m]]], EmptyFrame) :
                     o.ret = Ok(funds'[m].series)]_vars

(* Three selections on an empty portfolio, the second repeating the first: *)
(* the funds stored are 'fund 1' and 'fund 3'                              *)
C30_Witness ==
  /\ op = "fill_portfolio"
  /\ ret.ok
  /\ Len(arg.selected) = 3
  /\ arg.selected[1] = arg.selected[2]
  /\ Len(log) = 3
  /\ Len(funds) = 2
  /\ funds[1].name = "fund 1"
  /\ funds[2].name = "fund 3"

============================================================================
